---- MODULE Spec2Model ----
(***************************************************************************)
(* SLH community wallet: the token-transfer API (src/api/main.py), the     *)
(* wallet store and chat facade of the community wallet app (src/app) and  *)
(* the polling bot (src/bot).                                              *)
(*                                                                         *)
(* The three services are separate deployments.  Each has its own          *)
(* specification over the shared variable tuple:                           *)
(*   SpecApi     POST /transfer/slh of src/api/main.py                     *)
(*   SpecWallet  POST /api/wallet/set and /set_wallet of the bot variant     *)
(*   SpecChat    the /telegram/webhook command dispatcher with its ledger  *)
(*   SpecBot     /setwallet of the polling bot                             *)
(*   SpecRead    the wallet endpoints of the app with their balance lookups *)
(*   SpecUnits   the conversions between human and minimal token units     *)
(*   SpecUpsert  concurrent /set_wallet calls of the bot variant           *)
(*   SpecApiConcurrent  POST /transfer/slh requests in worker threads      *)
(*   SpecStores  a run of any service that stores wallet addresses         *)
(*   SpecGateway a run of either service that signs transfers              *)
(*                                                                         *)
(* Text is modelled as sequences of one-character strings so that the      *)
(* address checks are computed the way the code computes them.  Decimal    *)
(* amounts are integers counting units of 10^-HumanDigits.                 *)
(***************************************************************************)
EXTENDS Integers, Sequences, FiniteSets, TLC

VARIABLES
    deployment,     \* which service this run is a run of
    apiCfg,         \* src/api/main.py module-level configuration (lines 12-18)
    chain,          \* the token contract and the operator account as the node sees them
    apiReq,         \* one record per in-flight POST /transfer/slh
    apiBroadcasts,  \* transactions the node accepted from transfer_slh
    wallets,        \* the rows of table "wallets" (src/app/models.py)
    userStore,      \* the bot's users.json: user id -> saved wallet (src/bot/user_store.py)
    walletCall,     \* the last set-wallet operation and what it answered
    chatCfg,        \* environment of the webhook dispatcher and of the hot-wallet gateway
    ledger,         \* the rows of table "transactions", in insertion order
    handler,        \* the app's request handler that ran last: where it stands, what it answered
    hotBroadcasts,  \* transactions the node accepted from send_slh_bsc_onchain
    units,          \* an amount, the decimals, and what the unit conversions made of them
    upserts,        \* the /set_wallet calls of the bot variant running in worker threads
    tgApp,          \* src/app/telegram_bot.py: the global Application, its lock, the webhook requests
    bnbPrice,       \* src/app/telegram.py: the BNB price cache, the clock, the last lookup
    storeCalls,     \* src/bot/user_store.py: the lock of one UserStore and the calls running on it
    menu            \* src/bot/app_webhook.py: user_data of each user, the last reply, the API calls made

vars == <<deployment, apiCfg, chain, apiReq, apiBroadcasts,
          wallets, userStore, walletCall,
          chatCfg, ledger, handler, hotBroadcasts, units, upserts,
          tgApp, bnbPrice, storeCalls, menu>>

apiVars == <<apiCfg, chain, apiReq, apiBroadcasts>>
walletVars == <<wallets, userStore, walletCall>>
chatVars == <<chatCfg, ledger, handler, hotBroadcasts>>
serviceVars == <<tgApp, bnbPrice, storeCalls, menu>>

----------------------------------------------------------------------------
(* Bounds *)

HumanDigits == 2        \* fractional digits carried by the human amounts enumerated
MaxLedger == 2          \* rows of table "transactions" in a run
MaxDecimals == 1        \* token decimals() ranges over 0..MaxDecimals
MaxBroadcasts == 2      \* transactions the node accepts from one service in a run

(* Program constants *)

AddrHexLen == 40        \* hex characters of an address after 0x
DecimalPrec == 28       \* significant digits of Python's default decimal context
FloatExactDigits == 15  \* significant decimal digits every double carries exactly
FloatReprDigits == 17   \* most significant digits str() prints of a double
WordHexLen == 64        \* hex characters of a 32-byte word of call data

----------------------------------------------------------------------------
(* Text *)

HexChars == {"0", "1", "2", "3", "4", "5", "6", "7", "8", "9",
             "a", "b", "c", "d", "e", "f",
             "A", "B", "C", "D", "E", "F"}

Rep(c, n) == [i \in 1..n |-> c]

AddrA       == <<"0", "x">> \o Rep("a", AddrHexLen)
AddrB       == <<"0", "x">> \o Rep("b", AddrHexLen)
AddrShort   == <<"0", "x">> \o Rep("a", AddrHexLen - 1)
AddrNonHex  == <<"0", "x">> \o Rep("g", AddrHexLen)
AddrNoPfx   == Rep("a", AddrHexLen)
AddrEmpty   == <<>>

StartsWith0x(s) == Len(s) >= 2 /\ s[1] = "0" /\ s[2] = "x"

\* Python None where a str is optional
None == <<"None">>

\* Python truthiness of an optional str
Truthy(s) == s # None /\ Len(s) > 0

\* Python's "a or b" on optional strs
Or(a, b) == IF Truthy(a) THEN a ELSE b

\* re.compile(r"^0x[a-fA-F0-9]{40}$").match(s)
ADDR_RE(s) ==
    /\ StartsWith0x(s)
    /\ Len(s) = 2 + AddrHexLen
    /\ \A i \in 3..Len(s) : s[i] \in HexChars

\* Web3.is_address on a str: 40 hex characters, the 0x prefix optional
\* (the inputs enumerated are single-case, so no checksum applies).
Web3_is_address(s) ==
    LET body == IF StartsWith0x(s) THEN SubSeq(s, 3, Len(s)) ELSE s
    IN  /\ Len(body) = AddrHexLen
        /\ \A i \in 1..Len(body) : body[i] \in HexChars

----------------------------------------------------------------------------
(* Amounts *)

RECURSIVE Pow10(_)
Pow10(n) == IF n = 0 THEN 1 ELSE 10 * Pow10(n - 1)

\* int(x) of a non-negative quotient: truncation toward zero
TruncDiv(a, b) == IF a >= 0 THEN a \div b ELSE -((-a) \div b)

\* int(Decimal(amount) * (Decimal(10) ** Decimal(decimals)))
\* amount counts units of 10^-HumanDigits
ToMinimalUnits(amount, decimals) ==
    TruncDiv(amount * Pow10(decimals), Pow10(HumanDigits))

OneToken == Pow10(HumanDigits)

\* a request amount: a decimal string that parses (numeric) or does not
Num(n) == [numeric |-> TRUE, n |-> n]
NotANumber == [numeric |-> FALSE, n |-> 0]

\* an on-chain balance in minimal units: the integer itself, or the mark of
\* an integer of WordHexLen or more hex digits (16^63 and above)
Dec(n) == [huge |-> FALSE, n |-> n]
DecHuge == [huge |-> TRUE, n |-> 0]

----------------------------------------------------------------------------
(* Decimal arithmetic as Python's decimal module carries it out: a value is a
   sequence of digits (the coefficient) and an exponent of ten *)

D(digits, exp) == [digits |-> digits, exp |-> exp]

Zeros(n) == [i \in 1..n |-> 0]

RECURSIVE StripLeadingZeros(_)
StripLeadingZeros(ds) ==
    IF Len(ds) > 1 /\ ds[1] = 0 THEN StripLeadingZeros(Tail(ds)) ELSE ds

\* the same number with no trailing zero in its coefficient
RECURSIVE Normalize(_)
Normalize(x) ==
    IF Len(x.digits) > 1 /\ x.digits[Len(x.digits)] = 0
    THEN Normalize(D(SubSeq(x.digits, 1, Len(x.digits) - 1), x.exp + 1))
    ELSE IF x.digits = <<0>> THEN D(<<0>>, 0) ELSE x

\* Decimal.__eq__: equality of the numbers
DecimalEq(x, y) ==
    Normalize(D(StripLeadingZeros(x.digits), x.exp))
        = Normalize(D(StripLeadingZeros(y.digits), y.exp))

\* coefficient + 1
RECURSIVE Increment(_)
Increment(ds) ==
    IF ds = <<>> THEN <<1>>
    ELSE IF ds[Len(ds)] < 9
         THEN SubSeq(ds, 1, Len(ds) - 1) \o <<ds[Len(ds)] + 1>>
         ELSE Increment(SubSeq(ds, 1, Len(ds) - 1)) \o <<0>>

\* the context's rounding of a result to prec significant digits, ROUND_HALF_EVEN
RoundHalfEven(x, prec) ==
    IF Len(x.digits) <= prec THEN x
    ELSE LET keep == SubSeq(x.digits, 1, prec)
             rest == SubSeq(x.digits, prec + 1, Len(x.digits))
             tail_zero == \A i \in 2..Len(rest) : rest[i] = 0
             up == \/ rest[1] > 5
                   \/ rest[1] = 5 /\ ~tail_zero
                   \/ rest[1] = 5 /\ tail_zero /\ keep[prec] % 2 = 1
             kept == IF up THEN Increment(keep) ELSE keep
         IN  IF Len(kept) > prec
             THEN D(SubSeq(kept, 1, prec), x.exp + Len(rest) + 1)
             ELSE D(kept, x.exp + Len(rest))

\* Decimal * 10 ** decimals in the default context
TimesPow10(x, decimals) ==
    RoundHalfEven(D(x.digits \o Zeros(decimals), x.exp), DecimalPrec)

\* int(Decimal): the digits of the integer part, truncation toward zero
IntOf(x) ==
    IF x.exp >= 0 THEN StripLeadingZeros(x.digits \o Zeros(x.exp))
    ELSE IF -x.exp >= Len(x.digits) THEN <<0>>
    ELSE StripLeadingZeros(SubSeq(x.digits, 1, Len(x.digits) + x.exp))

\* Decimal(str(float(x))): a double carries FloatExactDigits significant
\* digits exactly and prints at most FloatReprDigits
FloatStr(x) ==
    LET n == Normalize(x)
    IN  IF Len(n.digits) <= FloatExactDigits THEN x
        ELSE RoundHalfEven(n, FloatReprDigits)

----------------------------------------------------------------------------
(* The unit conversions *)

\* src/api/main.py line 85
amount_wei_transfer_slh(amount_slh, decimals) == IntOf(TimesPow10(amount_slh, decimals))

\* src/app/telegram.py line 417 and src/app/blockchain.py line 68
amount_wei_send_slh_bsc_onchain(amount, decimals) ==
    IntOf(TimesPow10(FloatStr(amount), decimals))

\* src/api/main.py line 65: Decimal(bal) / Decimal(10) ** Decimal(decimals)
human_token_balance(bal, decimals) ==
    RoundHalfEven(Normalize(D(bal, -decimals)), DecimalPrec)

\* the decimal strings enumerated
UnitAmounts ==
    { D(<<1, 5>>, -1),                                   \* 1.5
      D(<<5>>, -2),                                      \* 0.05
      D(<<1, 0, 0>>, 0),                                 \* 100
      D(<<2, 5, 0>>, -2),                                \* 2.50
      D(<<1, 2, 9>>, -3),                                \* 0.129
      D(<<1, 2, 3, 4, 5, 6, 7, 8, 9, 0, 1, 2, 3, 4, 5, 6, 7, 8, 9>>, -19),
      D(<<1, 2, 3, 4, 5, 6, 7, 1, 2, 3, 4, 5, 6, 7, 8, 9, 0, 1, 2, 3, 4, 5, 6, 7, 8>>, -18),
      D([i \in 1..29 |-> 9], -29),
      D(<<1, 2, 3, 4, 5, 6, 7, 8, 9, 0, 1,
          1, 2, 3, 4, 5, 6, 7, 8, 9, 0, 1, 2, 3, 4, 5, 6, 7, 8>>, -18) }

UnitDecimals == {0, 2, 18}

NoUnits ==
    [op |-> "", a |-> D(<<0>>, 0), d |-> 0, amount_wei |-> <<0>>,
     read |-> FALSE, human |-> D(<<0>>, 0)]

UnitsUnused == units = NoUnits

\* POST /transfer/slh converts the amount
units_transfer_slh ==
    /\ units.op = "input"
    /\ units' = [units EXCEPT !.op = "transfer_slh",
                              !.amount_wei = amount_wei_transfer_slh(units.a, units.d)]
    /\ UNCHANGED <<deployment, serviceVars, upserts, apiVars, walletVars, chatVars>>

\* /send_slh hands the amount to the gateway, which converts it
units_send_slh_bsc_onchain ==
    /\ units.op = "input"
    /\ units' = [units EXCEPT !.op = "send_slh_bsc_onchain",
                              !.amount_wei = amount_wei_send_slh_bsc_onchain(units.a, units.d)]
    /\ UNCHANGED <<deployment, serviceVars, upserts, apiVars, walletVars, chatVars>>

\* GET /token/balance/{address} of an account that holds what was sent
units_token_balance ==
    /\ units.op \in {"transfer_slh", "send_slh_bsc_onchain"}
    /\ ~units.read
    /\ units' = [units EXCEPT !.read = TRUE,
                              !.human = human_token_balance(units.amount_wei, units.d)]
    /\ UNCHANGED <<deployment, serviceVars, upserts, apiVars, walletVars, chatVars>>

----------------------------------------------------------------------------
(* The wallet store: table "wallets" and the bot's users.json *)

Users == {"1", "2"}

\* the Telegram @username of each user
UsernameOf(u) == IF u = "1" THEN <<"a", "l", "i", "c", "e">> ELSE None

TonA == <<"U", "Q", "C">>

WalletAddrInputs == {AddrA, AddrB, AddrShort, AddrEmpty}

NoCall == [telegram_id |-> "", address |-> None, before |-> None, ok |-> FALSE]

WalletsUnused ==
    /\ wallets = {}
    /\ userStore = [u \in {} |-> None]
    /\ walletCall = NoCall

\* db.get(Wallet, telegram_id) / query(...).filter(telegram_id == ...).first()
HasRow(table, telegram_id) == \E w \in table : w.telegram_id = telegram_id
GetRow(table, telegram_id) == CHOOSE w \in table : w.telegram_id = telegram_id

\* the chain address stored for a user, None when there is no row
StoredAddress(table, telegram_id) ==
    IF HasRow(table, telegram_id) THEN GetRow(table, telegram_id).bnb_address ELSE None

\* src/app/models.py Wallet: telegram_id is the primary key, so the commit of
\* a second row for the same id raises IntegrityError and stores nothing
CommitInsert(table, row) ==
    IF HasRow(table, row.telegram_id) THEN table ELSE table \cup {row}

CommitUpdate(table, old, new) == (table \ {old}) \cup {new}

\* src/app/routers/wallet.py upsert_wallet (lines 216-265)
upsert_wallet(table, telegram_id, username, bnb_address, ton_address) ==
    IF ~HasRow(table, telegram_id)
    THEN CommitInsert(table,
            [telegram_id |-> telegram_id, username |-> username,
             bnb_address |-> bnb_address, ton_address |-> ton_address,
             slh_address |-> bnb_address])
    ELSE LET w == GetRow(table, telegram_id)
         IN CommitUpdate(table, w,
               [w EXCEPT !.username = Or(username, w.username),
                         !.bnb_address = bnb_address,
                         !.slh_address = bnb_address,
                         !.ton_address = Or(ton_address, w.ton_address)])

\* src/app/wallet.py set_wallet (lines 139-175); the payload fields the src
\* schema does not declare (slh_address, username) are absent, i.e. None
app_set_wallet(table, telegram_id, username, bnb_address, ton_address) ==
    LET payload == [bnb_address |-> bnb_address, slh_address |-> None,
                    ton_address |-> ton_address, username |-> None]
    IN IF ~HasRow(table, telegram_id)
       THEN CommitInsert(table,
               [telegram_id |-> telegram_id,
                username |-> Or(username, payload.username),
                bnb_address |-> payload.bnb_address,
                ton_address |-> payload.ton_address,
                slh_address |-> Or(payload.slh_address, payload.bnb_address)])
       ELSE LET w == GetRow(table, telegram_id)
                bnb == Or(payload.bnb_address, w.bnb_address)
            IN CommitUpdate(table, w,
                  [w EXCEPT !.bnb_address = bnb,
                            !.slh_address = Or(payload.slh_address, Or(w.slh_address, bnb)),
                            !.ton_address = Or(payload.ton_address, w.ton_address),
                            !.username = Or(username, Or(payload.username, w.username))])

\* src/app/telegram_bot.py _upsert_wallet_sync (lines 43-75)
_upsert_wallet_sync(table, telegram_id, username, bnb_address, ton_address) ==
    IF ~HasRow(table, telegram_id)
    THEN CommitInsert(table,
            [telegram_id |-> telegram_id, username |-> username,
             bnb_address |-> bnb_address, ton_address |-> ton_address,
             slh_address |-> None])
    ELSE LET w == GetRow(table, telegram_id)
         IN CommitUpdate(table, w,
               [w EXCEPT !.username = Or(username, w.username),
                         !.bnb_address = bnb_address,
                         !.ton_address = ton_address])

\* what a set-wallet call was given, what was stored before it, and whether it
\* reported success
Called(telegram_id, address, ok) ==
    [telegram_id |-> telegram_id, address |-> address,
     before |-> StoredAddress(wallets, telegram_id), ok |-> ok]

\* POST /api/wallet/set, src/app/routers/wallet.py set_wallet (lines 271-308)
http_set_wallet(telegram_id, username, bnb_address, ton_address) ==
    /\ wallets' = upsert_wallet(wallets, telegram_id, username, bnb_address, ton_address)
    /\ walletCall' = Called(telegram_id, bnb_address, TRUE)
    /\ UNCHANGED <<deployment, serviceVars, units, upserts, apiVars, userStore, chatVars>>

\* POST /api/wallet/set, src/app/wallet.py set_wallet (lines 139-175)
http_set_wallet_app(telegram_id, username, bnb_address, ton_address) ==
    /\ wallets' = app_set_wallet(wallets, telegram_id, username, bnb_address, ton_address)
    /\ walletCall' = Called(telegram_id, bnb_address, TRUE)
    /\ UNCHANGED <<deployment, serviceVars, units, upserts, apiVars, userStore, chatVars>>

\* _normalize_address (src/app/telegram_bot.py lines 31-35) on a command
\* argument, which carries no whitespace: the empty string becomes None
_normalize_address(addr) == IF addr = None \/ Len(addr) = 0 THEN None ELSE addr

\* /set_wallet of the python-telegram-bot variant, cmd_set_wallet
\* (src/app/telegram_bot.py lines 126-177)
cmd_set_wallet(telegram_id, arg0, ton_address) ==
    LET bnb_address == _normalize_address(arg0)
    IN  IF ~Truthy(bnb_address)
        THEN /\ walletCall' = Called(telegram_id, arg0, FALSE)
             /\ UNCHANGED <<deployment, serviceVars, units, upserts, apiVars, wallets, userStore, chatVars>>
        ELSE /\ wallets' = _upsert_wallet_sync(wallets, telegram_id,
                               UsernameOf(telegram_id), bnb_address,
                               _normalize_address(ton_address))
             /\ walletCall' = Called(telegram_id, bnb_address, TRUE)
             /\ UNCHANGED <<deployment, serviceVars, units, upserts, apiVars, userStore, chatVars>>

\* cmd_set_wallet runs _upsert_wallet_sync through asyncio.to_thread, and the
\* application is built with concurrent_updates(True): calls run side by side,
\* each with its own session.  What one call holds between its
\* session.get and its session.commit:
IdleUpsert ==
    [pc |-> "idle", telegram_id |-> "", bnb_address |-> None, seen |-> {},
     raised |-> "", ok |-> FALSE, returned |-> None]

Threads == {1, 2}

UpsertsUnused == upserts = [c \in Threads |-> IdleUpsert]

\* _upsert_wallet_sync lines 53-54: session = SessionLocal(); session.get
_upsert_wallet_sync_get(c, telegram_id, bnb_address) ==
    /\ upserts[c].pc \in {"idle", "done"}
    /\ upserts' = [upserts EXCEPT ![c] =
           [IdleUpsert EXCEPT !.pc = "loaded", !.telegram_id = telegram_id,
                              !.bnb_address = bnb_address,
                              !.seen = {w \in wallets : w.telegram_id = telegram_id}]]
    /\ UNCHANGED <<deployment, serviceVars, units, apiVars, walletVars, chatVars>>

\* _upsert_wallet_sync lines 55-73: the row built or changed in the session,
\* then commit and refresh.  The INSERT of a key another transaction has
\* committed since raises IntegrityError; an UPDATE writes the columns whose
\* value the call changed on the row it loaded.
_upsert_wallet_sync_commit(c) ==
    /\ upserts[c].pc = "loaded"
    /\ LET u == upserts[c]
           username == UsernameOf(u.telegram_id)
       IN  IF u.seen = {}
           THEN IF HasRow(wallets, u.telegram_id)
                THEN /\ upserts' = [upserts EXCEPT ![c] =
                            [u EXCEPT !.pc = "done", !.raised = "IntegrityError"]]
                     /\ UNCHANGED wallets
                ELSE /\ wallets' = wallets \cup
                            {[telegram_id |-> u.telegram_id, username |-> username,
                              bnb_address |-> u.bnb_address, ton_address |-> None,
                              slh_address |-> None]}
                     /\ upserts' = [upserts EXCEPT ![c] =
                            [u EXCEPT !.pc = "done", !.ok = TRUE,
                                      !.returned = u.bnb_address]]
           ELSE LET w == CHOOSE x \in u.seen : TRUE
                    cur == GetRow(wallets, u.telegram_id)
                    row == [cur EXCEPT
                              !.username = IF Or(username, w.username) # w.username
                                           THEN Or(username, w.username) ELSE @,
                              !.bnb_address = IF u.bnb_address # w.bnb_address
                                              THEN u.bnb_address ELSE @,
                              !.ton_address = IF None # w.ton_address THEN None ELSE @]
                IN  /\ wallets' = (wallets \ {cur}) \cup {row}
                    /\ upserts' = [upserts EXCEPT ![c] =
                           [u EXCEPT !.pc = "done", !.ok = TRUE,
                                     !.returned = row.bnb_address]]
    /\ UNCHANGED <<deployment, serviceVars, units, apiVars, userStore, walletCall, chatVars>>

\* UserStore.set_wallet (src/bot/user_store.py lines 18-24)
UserStore_set_wallet(data, user_id, address) ==
    [u \in DOMAIN data \cup {user_id} |-> IF u = user_id THEN address ELSE data[u]]

\* /setwallet of the polling bot (src/bot/bot.py lines 53-66)
setwallet(user_id, arg0) ==
    LET call == [Called(user_id, arg0, ADDR_RE(arg0)) EXCEPT
                    !.before = IF user_id \in DOMAIN userStore
                               THEN userStore[user_id] ELSE None]
    IN  /\ walletCall' = call
        /\ userStore' = IF ADDR_RE(arg0)
                        THEN UserStore_set_wallet(userStore, user_id, arg0)
                        ELSE userStore
        /\ UNCHANGED <<deployment, serviceVars, units, upserts, apiVars, wallets, chatVars>>


----------------------------------------------------------------------------
(* src/api/main.py: POST /transfer/slh *)

NoHeader == [present |-> FALSE, value |-> ""]
Hdr(v) == [present |-> TRUE, value |-> v]

ApiHeaders == {NoHeader, Hdr(""), Hdr("k1"), Hdr("k2")}
ApiToAddrs == {AddrA, AddrNoPfx, AddrShort}
ApiAmounts == {Num(0), Num(5), Num(OneToken), Num(2 * OneToken + 50), NotANumber}

\* the deployments enumerated: shared secret on or off, operator key and
\* token address present or missing, gas price from the environment or the node
ApiConfigs ==
    { [INTERNAL_API_KEY |-> "k1", OPERATOR_PK |-> TRUE,
       SELA_TOKEN_ADDRESS |-> AddrB, GAS_PRICE_GWEI |-> TRUE],
      [INTERNAL_API_KEY |-> "", OPERATOR_PK |-> TRUE,
       SELA_TOKEN_ADDRESS |-> AddrB, GAS_PRICE_GWEI |-> FALSE],
      [INTERNAL_API_KEY |-> "", OPERATOR_PK |-> FALSE,
       SELA_TOKEN_ADDRESS |-> AddrB, GAS_PRICE_GWEI |-> FALSE],
      [INTERNAL_API_KEY |-> "", OPERATOR_PK |-> TRUE,
       SELA_TOKEN_ADDRESS |-> AddrEmpty, GAS_PRICE_GWEI |-> TRUE] }

OperatorBalances == {0, 15}

IdleReq ==
    [pc |-> "idle", header |-> NoHeader, to_addr |-> AddrEmpty, amount_slh |-> Num(0),
     decimals |-> 0, amount_wei |-> 0, op_bal |-> 0, nonce |-> 0,
     calls |-> {}, raised |-> "", status |-> 0, detail |-> "", ok |-> FALSE]

Respond(q, status, detail) ==
    [q EXCEPT !.pc = "done", !.status = status, !.detail = detail,
              !.ok = (status = 200)]

\* lines 72-74: the optional internal API key guard
KeyGuardRejects_NoMissingCheck(key, header) ==
    /\ key # ""
    /\ header.present
    /\ header.value # key

KeyGuardRejects(key, header) ==
    /\ key # ""
    /\ (~header.present \/ header.value = "" \/ header.value # key)

\* line 45: amount_slh: Decimal = Field(..., gt=Decimal('0'))
TransferInValid_OncePerAmount(amount) ==
    /\ amount.numeric
    /\ amount.n > 0
    /\ \A i \in 1..Len(apiBroadcasts) : apiBroadcasts[i].amount_slh # amount.n

TransferInValid(amount) == amount.numeric /\ amount.n > 0

\* lines 69-82: request validation and every check made before the first RPC
transfer_slh_guard(r, header, to_addr, amount) ==
    /\ apiReq[r].pc \in {"idle", "done"}
    /\ LET q == [IdleReq EXCEPT !.header = header, !.to_addr = to_addr,
                                !.amount_slh = amount]
       IN apiReq' = [apiReq EXCEPT ![r] =
            IF ~TransferInValid(amount)
                THEN Respond(q, 422, "validation error")
            ELSE IF KeyGuardRejects(apiCfg.INTERNAL_API_KEY, header)
                THEN Respond(q, 403, "forbidden")
            ELSE IF ~apiCfg.OPERATOR_PK
                THEN Respond(q, 500, "server not configured (OPERATOR_PK missing)")
            ELSE IF ~Web3_is_address(to_addr)
                THEN Respond(q, 400, "invalid to_addr")
            ELSE IF ~Web3_is_address(apiCfg.SELA_TOKEN_ADDRESS)
                THEN Respond(q, 500, "SELA_TOKEN_ADDRESS is invalid or missing")
            ELSE [q EXCEPT !.pc = "decimals"]]
    /\ UNCHANGED <<deployment, serviceVars, units, upserts, apiCfg, chain, apiBroadcasts, walletVars, chatVars>>

RpcFailed_AnswersOk(q, call) ==
    Respond([q EXCEPT !.calls = q.calls \cup {call}, !.raised = call], 200, "ok")

\* an RPC that raises is an unhandled exception: FastAPI answers 500
RpcFailed(q, call) ==
    Respond([q EXCEPT !.calls = q.calls \cup {call}, !.raised = call],
            500, "Internal Server Error")

\* lines 84-85: decimals().call() and the conversion to minimal units
transfer_slh_decimals(r, rpc_ok) ==
    /\ apiReq[r].pc = "decimals"
    /\ LET q == apiReq[r]
       IN apiReq' = [apiReq EXCEPT ![r] =
            IF rpc_ok
            THEN [q EXCEPT !.pc = "balanceOf",
                           !.calls = q.calls \cup {"decimals"},
                           !.decimals = chain.decimals,
                           !.amount_wei = ToMinimalUnits(q.amount_slh.n, chain.decimals)]
            ELSE RpcFailed(q, "decimals")]
    /\ UNCHANGED <<deployment, serviceVars, units, upserts, apiCfg, chain, apiBroadcasts, walletVars, chatVars>>

\* lines 91-93: the operator's token balance, read before anything is signed
InsufficientOperatorBalance(op_bal, amount_wei) == op_bal < amount_wei

transfer_slh_balanceOf(r, rpc_ok) ==
    /\ apiReq[r].pc = "balanceOf"
    /\ LET q == [apiReq[r] EXCEPT !.calls = @ \cup {"balanceOf"}]
           seen == [q EXCEPT !.op_bal = chain.balance]
       IN apiReq' = [apiReq EXCEPT ![r] =
            IF ~rpc_ok THEN RpcFailed(q, "balanceOf")
            ELSE IF InsufficientOperatorBalance(seen.op_bal, seen.amount_wei)
                 THEN Respond(seen, 400, "insufficient token balance in operator")
                 ELSE [seen EXCEPT !.pc = IF apiCfg.GAS_PRICE_GWEI
                                          THEN "nonce" ELSE "gas_price"]]
    /\ UNCHANGED <<deployment, serviceVars, units, upserts, apiCfg, chain, apiBroadcasts, walletVars, chatVars>>

\* lines 96-99: w3.eth.gas_price when GAS_PRICE_GWEI is not configured
transfer_slh_gas_price(r, rpc_ok) ==
    /\ apiReq[r].pc = "gas_price"
    /\ LET q == [apiReq[r] EXCEPT !.calls = @ \cup {"gas_price"}]
       IN apiReq' = [apiReq EXCEPT ![r] =
            IF rpc_ok THEN [q EXCEPT !.pc = "nonce"]
                      ELSE RpcFailed(q, "gas_price")]
    /\ UNCHANGED <<deployment, serviceVars, units, upserts, apiCfg, chain, apiBroadcasts, walletVars, chatVars>>

\* line 101: get_transaction_count(sender_addr)
transfer_slh_nonce(r, rpc_ok) ==
    /\ apiReq[r].pc = "nonce"
    /\ LET q == [apiReq[r] EXCEPT !.calls = @ \cup {"get_transaction_count"}]
       IN apiReq' = [apiReq EXCEPT ![r] =
            IF rpc_ok THEN [q EXCEPT !.pc = "send", !.nonce = chain.nonce]
                      ELSE RpcFailed(q, "get_transaction_count")]
    /\ UNCHANGED <<deployment, serviceVars, units, upserts, apiCfg, chain, apiBroadcasts, walletVars, chatVars>>

\* the node takes a raw transaction whose nonce is the account's next one
NodeAccepts(nonce) == nonce = chain.nonce

\* lines 103-115: build, sign, send_raw_transaction, answer
transfer_slh_send(r, rpc_ok) ==
    /\ apiReq[r].pc = "send"
    /\ Len(apiBroadcasts) < MaxBroadcasts
    /\ LET q == [apiReq[r] EXCEPT !.calls = @ \cup {"sign_transaction"}]
       IN IF rpc_ok /\ NodeAccepts(q.nonce)
          THEN /\ apiBroadcasts' = Append(apiBroadcasts,
                     [to |-> q.to_addr, amount_wei |-> q.amount_wei,
                      nonce |-> q.nonce, op_bal |-> q.op_bal,
                      amount_slh |-> q.amount_slh.n, req |-> r])
               /\ chain' = [chain EXCEPT !.nonce = @ + 1]
               /\ apiReq' = [apiReq EXCEPT ![r] =
                     Respond([q EXCEPT !.calls = @ \cup {"send_raw_transaction"}],
                             200, "ok")]
          ELSE /\ apiReq' = [apiReq EXCEPT ![r] = RpcFailed(q, "send_raw_transaction")]
               /\ UNCHANGED <<chain, apiBroadcasts>>
    /\ UNCHANGED <<deployment, serviceVars, units, upserts, apiCfg, walletVars, chatVars>>


----------------------------------------------------------------------------
(* src/app/blockchain.py: the hot-wallet gateway *)

\* what the node does with the gateway's calls: it is unreachable, one of the
\* calls raises (get_transaction_count, gas_price, the gas estimate made by
\* build_transaction, send_raw_transaction), or every call goes through
RpcOutcomes == {"disconnected", "raises", "ok"}

NoHash == 0

\* send_slh_bsc_onchain (lines 43-97): the exception it raises, or "" and the
\* transaction it had the node accept.  to_checksum_address raises ValueError
\* on a malformed address; a failing explicit estimate_gas (lines 82-86) only
\* changes the gas limit.  amount_slh is float(amount), exact on the amounts
\* enumerated.
send_slh_bsc_onchain(cfg, to_address, amount_slh, rpc) ==
    LET amount_wei == ToMinimalUnits(amount_slh, cfg.SLH_TOKEN_DECIMALS)
    IN  IF ~cfg.hot_wallet_configured
            THEN [raised |-> "OnchainConfigError", tx |-> <<>>]
        ELSE IF rpc = "disconnected"
            THEN [raised |-> "OnchainConfigError", tx |-> <<>>]
        ELSE IF ~Web3_is_address(to_address)
            THEN [raised |-> "ValueError", tx |-> <<>>]
        ELSE IF rpc = "raises"
            THEN [raised |-> "Web3Exception", tx |-> <<>>]
        ELSE [raised |-> "",
              tx |-> <<[to |-> to_address, amount_wei |-> amount_wei,
                        balance |-> cfg.hot_balance, amount_slh |-> amount_slh]>>]

----------------------------------------------------------------------------
(* src/app/telegram.py: the /telegram/webhook command dispatcher *)

ChatAmounts == {Num(30 * OneToken), Num(0), Num(0 - OneToken), NotANumber}

AtAlice == <<"@">> \o UsernameOf("1")
AtNobody == <<"@", "n", "o">>
SendTargets == {AtAlice, <<"2">>, AtNobody}
AirdropTargets == {<<AtNobody, <<"2">>>>}

\* the environments enumerated: on-chain sending off; on with a hot wallet
\* that holds less than any amount sent, for every decimals; on with a hot
\* wallet that holds enough; on with the hot wallet left unconfigured and,
\* as with the Settings of src/app/config.py, no admin_owner_ids
ChatEnv(enabled, configured, decimals, balance, reward, admins) ==
    [SLH_ONCHAIN_ENABLED |-> enabled, hot_wallet_configured |-> configured,
     SLH_TOKEN_DECIMALS |-> decimals, hot_balance |-> balance,
     CLAIM_REWARD_SLH |-> reward, admin_owner_ids |-> admins,
     BSC_RPC_URL |-> TRUE, SLH_TOKEN_ADDRESS |-> TRUE]

ChatConfigs ==
    {ChatEnv(FALSE, TRUE, 0, 15, Num(100 * OneToken), {"1"})}
    \cup {ChatEnv(TRUE, TRUE, d, 15, Num(0), {"1"}) : d \in 0..MaxDecimals}
    \cup {ChatEnv(TRUE, TRUE, 0, 50 * OneToken, NotANumber, {"1"})}
    \cup {ChatEnv(TRUE, FALSE, 0, 15, Num(100 * OneToken), {})}

Idle ==
    [command |-> "", pc |-> "idle", telegram_id |-> "", to_telegram_id |-> "",
     to_address |-> None, amount |-> 0, row |-> 0, called |-> FALSE, raised |-> "",
     tx_hash_onchain |-> NoHash, text |-> "", value |-> 0, notified |-> {},
     ok |-> FALSE,
     \* the wallet endpoints: the addresses answered, the lookups awaited,
     \* the node calls made and the on-chain balances, in minimal units
     bnb_address |-> None, slh_address |-> None, pending |-> {}, rpc |-> {},
     bnb_balance |-> Dec(0), slh_balance_onchain |-> Dec(0)]

\* a handler that ran to its answer in one step
Answered(command, telegram_id, text, value) ==
    [Idle EXCEPT !.command = command, !.telegram_id = telegram_id,
                 !.text = text, !.value = value, !.ok = TRUE]

\* /send_slh makes no await between the commit of its entry (line 409) and
\* the return of the gateway (line 423): no other handler of the process
\* runs in between
NoHandlerInFlight == handler.pc = "idle"

ChatUnused ==
    /\ chatCfg = [SLH_ONCHAIN_ENABLED |-> FALSE, BSC_RPC_URL |-> TRUE,
                  SLH_TOKEN_ADDRESS |-> TRUE]
    /\ ledger = <<>>
    /\ handler = Idle
    /\ hotBroadcasts = <<>>

\* lines 84-89
_is_admin_Everyone(telegram_id) == TRUE

_is_admin(telegram_id) == telegram_id \in chatCfg.admin_owner_ids

\* lines 92-94
_onchain_enabled == chatCfg.SLH_ONCHAIN_ENABLED

\* lines 378-388 and 582-590: the recipient's wallet row, by @username or by id
FindTarget_ElseAnyRow(table, target) ==
    LET found == IF Len(target) > 0 /\ target[1] = "@"
                 THEN {w \in table : w.username = Tail(target)}
                 ELSE {w \in table : Len(target) = 1 /\ w.telegram_id = target[1]}
    IN  IF found = {} THEN table ELSE found

FindTarget(table, target) ==
    IF Len(target) > 0 /\ target[1] = "@"
    THEN {w \in table : w.username = Tail(target)}
    ELSE {w \in table : Len(target) = 1 /\ w.telegram_id = target[1]}

\* src/app/models.py Transaction (lines 31-56) as the handlers build it
Transaction(id, from_telegram_id, to_telegram_id, amount, note) ==
    [id |-> id, from_telegram_id |-> from_telegram_id,
     to_telegram_id |-> to_telegram_id, amount |-> amount, currency |-> "SLH",
     chain |-> "INTERNAL", onchain |-> FALSE, tx_hash |-> NoHash, note |-> note]

\* /set_wallet (lines 253-291); args[0] is never empty
webhook_set_wallet(telegram_id, bnb_address, ton_address) ==
    /\ NoHandlerInFlight
    /\ Len(bnb_address) > 0
    /\ wallets' = upsert_wallet(wallets, telegram_id, UsernameOf(telegram_id),
                                bnb_address, ton_address)
    /\ handler' = Answered("/set_wallet", telegram_id, "wallet updated", 0)
    /\ UNCHANGED <<deployment, serviceVars, units, upserts, apiVars, userStore, walletCall,
                   chatCfg, ledger, hotBroadcasts>>


\* Python None where a telegram id is optional
NoneId == "None"

\* /send_slh, lines 340-410: validation, the two wallet lookups, and the
\* commit of the internal entry.  The session is made with
\* expire_on_commit=False (src/app/db.py), so the handler keeps the recipient
\* address it loaded here.
send_slh_record(telegram_id, amount_raw, target_raw) ==
    /\ NoHandlerInFlight
    /\ Len(ledger) < MaxLedger
    /\ LET to_wallets == FindTarget(wallets, target_raw)
       IN  IF ~(amount_raw.numeric /\ amount_raw.n > 0)
               THEN /\ handler' = Answered("/send_slh", telegram_id, "invalid amount", 0)
                    /\ UNCHANGED ledger
           ELSE IF ~HasRow(wallets, telegram_id)
               THEN /\ handler' = Answered("/send_slh", telegram_id, "no wallet", 0)
                    /\ UNCHANGED ledger
           ELSE IF to_wallets = {}
               THEN /\ handler' = Answered("/send_slh", telegram_id, "no recipient", 0)
                    /\ UNCHANGED ledger
           ELSE LET to_wallet == CHOOSE w \in to_wallets : TRUE
                    tx == Transaction(Len(ledger) + 1, telegram_id,
                                      to_wallet.telegram_id, amount_raw.n, "")
                IN  /\ ledger' = Append(ledger, tx)
                    /\ handler' = [Idle EXCEPT
                                     !.command = "/send_slh",
                                     !.pc = "onchain",
                                     !.telegram_id = telegram_id,
                                     !.to_telegram_id = to_wallet.telegram_id,
                                     !.to_address = to_wallet.bnb_address,
                                     !.amount = amount_raw.n,
                                     !.row = tx.id]
    /\ UNCHANGED <<deployment, serviceVars, units, upserts, apiVars, walletVars, chatCfg, hotBroadcasts>>

\* lines 419-423: the committed entry once the gateway returned a hash
UpgradeEntry_EveryRow(rows, id, tx_hash) ==
    [i \in DOMAIN rows |->
        [rows[i] EXCEPT !.onchain = TRUE, !.chain = "BSC", !.tx_hash = tx_hash]]

UpgradeEntry_FlagOnly(rows, id, tx_hash) ==
    [i \in DOMAIN rows |->
        IF rows[i].id = id
        THEN [rows[i] EXCEPT !.onchain = TRUE, !.tx_hash = tx_hash]
        ELSE rows[i]]

UpgradeEntry(rows, id, tx_hash) ==
    [i \in DOMAIN rows |->
        IF rows[i].id = id
        THEN [rows[i] EXCEPT !.onchain = TRUE, !.chain = "BSC", !.tx_hash = tx_hash]
        ELSE rows[i]]

\* lines 414-432: the ledger after the gateway call returned or raised
LedgerAfterGateway_MarksFirst(rows, id, res, tx_hash) == UpgradeEntry(rows, id, tx_hash)

LedgerAfterGateway(rows, id, res, tx_hash) ==
    IF res.raised = "" THEN UpgradeEntry(rows, id, tx_hash) ELSE rows

\* /send_slh, lines 412-471: the optional on-chain send, the confirmation to
\* the sender and the notification of the recipient
send_slh_onchain(rpc) ==
    /\ handler.pc = "onchain"
    /\ IF _onchain_enabled /\ Truthy(handler.to_address)
       THEN LET res == send_slh_bsc_onchain(chatCfg, handler.to_address,
                                            handler.amount, rpc)
                tx_hash == Len(hotBroadcasts) + 1
            IN  /\ res.raised = "" => Len(hotBroadcasts) < MaxBroadcasts
                /\ hotBroadcasts' = hotBroadcasts \o res.tx
                /\ ledger' = LedgerAfterGateway(ledger, handler.row, res, tx_hash)
                /\ handler' = [handler EXCEPT
                                 !.pc = "idle", !.called = TRUE,
                                 !.raised = res.raised,
                                 !.tx_hash_onchain =
                                     IF res.raised = "" THEN tx_hash ELSE NoHash,
                                 !.text = "transfer accepted",
                                 !.notified = {handler.to_telegram_id},
                                 !.ok = TRUE]
       ELSE /\ rpc = "ok"
            /\ handler' = [handler EXCEPT !.pc = "idle",
                             !.text = "transfer accepted",
                             !.notified = {handler.to_telegram_id},
                             !.ok = TRUE]
            /\ UNCHANGED <<ledger, hotBroadcasts>>
    /\ UNCHANGED <<deployment, serviceVars, units, upserts, apiVars, walletVars, chatCfg>>

\* lines 517-521
ClaimReward(reward_str) == IF reward_str.numeric THEN reward_str.n ELSE 10 * OneToken

\* /claim, lines 516-541
claim(telegram_id) ==
    /\ NoHandlerInFlight
    /\ Len(ledger) < MaxLedger
    /\ LET reward == ClaimReward(chatCfg.CLAIM_REWARD_SLH)
       IN  /\ ledger' = Append(ledger,
                 Transaction(Len(ledger) + 1, NoneId, telegram_id, reward, "claim"))
           /\ handler' = Answered("/claim", telegram_id, "claimed", reward)
    /\ UNCHANGED <<deployment, serviceVars, units, upserts, apiVars, walletVars, chatCfg, hotBroadcasts>>

\* lines 578-606: one entry per target that has a wallet
RECURSIVE AirdropRows(_, _, _, _, _)
AirdropRows(rows, table, telegram_id, amount, targets) ==
    IF targets = <<>> THEN rows
    ELSE LET found == FindTarget(table, Head(targets))
         IN  IF found = {}
             THEN AirdropRows(rows, table, telegram_id, amount, Tail(targets))
             ELSE AirdropRows(
                    Append(rows, Transaction(Len(rows) + 1, telegram_id,
                                             (CHOOSE w \in found : TRUE).telegram_id,
                                             amount, "airdrop")),
                    table, telegram_id, amount, Tail(targets))

\* /airdrop, lines 544-624
airdrop(telegram_id, amount_raw, targets_raw) ==
    /\ NoHandlerInFlight
    /\ Len(ledger) + Len(targets_raw) <= MaxLedger
    /\ IF ~_is_admin(telegram_id)
           THEN /\ handler' = Answered("/airdrop", telegram_id, "forbidden", 0)
                /\ UNCHANGED ledger
       ELSE IF ~(amount_raw.numeric /\ amount_raw.n > 0)
           THEN /\ handler' = Answered("/airdrop", telegram_id, "invalid amount", 0)
                /\ UNCHANGED ledger
       ELSE /\ ledger' = AirdropRows(ledger, wallets, telegram_id, amount_raw.n,
                                     targets_raw)
            /\ handler' = [Answered("/airdrop", telegram_id, "airdrop done",
                                    Len(ledger') - Len(ledger))
                              EXCEPT !.notified =
                                  {ledger'[i].to_telegram_id :
                                      i \in (Len(ledger) + 1)..Len(ledger')}]
    /\ UNCHANGED <<deployment, serviceVars, units, upserts, apiVars, walletVars, chatCfg, hotBroadcasts>>

\* /admin, lines 627-654
admin(telegram_id) ==
    /\ NoHandlerInFlight
    /\ handler' = Answered("/admin", telegram_id,
                           IF _is_admin(telegram_id) THEN "admin panel"
                                                     ELSE "forbidden", 0)
    /\ UNCHANGED <<deployment, serviceVars, units, upserts, apiVars, walletVars, chatCfg, ledger, hotBroadcasts>>

----------------------------------------------------------------------------
(* src/app/wallet.py: the internal balance *)

\* func.coalesce(func.sum(Transaction.amount), 0) over the rows a filter keeps
RECURSIVE SumAmount(_)
SumAmount(rows) ==
    IF rows = <<>> THEN 0 ELSE Head(rows).amount + SumAmount(Tail(rows))

\* _get_internal_slh_balance (lines 79-101)
_get_internal_slh_balance_AnyChain(rows, telegram_id) ==
    LET incoming == SumAmount(SelectSeq(rows, LAMBDA t :
                        t.to_telegram_id = telegram_id /\ t.currency = "SLH"))
        outgoing == SumAmount(SelectSeq(rows, LAMBDA t :
                        t.from_telegram_id = telegram_id /\ t.currency = "SLH"))
    IN  incoming - outgoing

_get_internal_slh_balance_DebitsAnyChain(rows, telegram_id) ==
    LET incoming == SumAmount(SelectSeq(rows, LAMBDA t :
                        /\ t.to_telegram_id = telegram_id
                        /\ t.currency = "SLH"
                        /\ t.chain = "INTERNAL"))
        outgoing == SumAmount(SelectSeq(rows, LAMBDA t :
                        t.from_telegram_id = telegram_id /\ t.currency = "SLH"))
    IN  incoming - outgoing

_get_internal_slh_balance(rows, telegram_id) ==
    LET incoming == SumAmount(SelectSeq(rows, LAMBDA t :
                        /\ t.to_telegram_id = telegram_id
                        /\ t.currency = "SLH"
                        /\ t.chain = "INTERNAL"))
        outgoing == SumAmount(SelectSeq(rows, LAMBDA t :
                        /\ t.from_telegram_id = telegram_id
                        /\ t.currency = "SLH"
                        /\ t.chain = "INTERNAL"))
    IN  incoming - outgoing

----------------------------------------------------------------------------
(* The node's JSON-RPC answers as Python holds them *)

\* the value under "result": None (absent or null), a str or an int
ResultNone == [type |-> "NoneType", text |-> <<>>, n |-> 0]
ResultStr(text) == [type |-> "str", text |-> text, n |-> 0]
ResultInt(n) == [type |-> "int", text |-> <<>>, n |-> n]

\* "not result"
Falsy(v) ==
    \/ v.type = "NoneType"
    \/ v.type = "str" /\ v.text = <<>>
    \/ v.type = "int" /\ v.n = 0

\* one HTTP exchange with the node: an exception of the transport (timeout,
\* HTTP error status, a body that is not JSON), or the JSON value of the body
Transport == [kind |-> "exception", error |-> FALSE, result |-> ResultNone]
JsonNull == [kind |-> "null", error |-> FALSE, result |-> ResultNone]
JsonList == [kind |-> "list", error |-> FALSE, result |-> ResultNone]
JsonObject(error, result) == [kind |-> "object", error |-> error, result |-> result]

\* the largest uint256, a balance a token contract can answer
Uint256Max == <<"0", "x">> \o Rep("f", WordHexLen)

RpcResults ==
    {ResultNone, ResultStr(<<>>), ResultStr(<<"0", "x">>),
     ResultStr(<<"0", "x", "1", "f">>), ResultStr(<<"0", "x", "z", "z">>),
     ResultStr(Uint256Max), ResultInt(5), ResultInt(0)}

\* the answer the chat deployment's runs enumerate (SpecRead enumerates all)
ChatRpcBodies == {JsonObject(FALSE, ResultStr(<<"0", "x", "1", "f">>))}

RpcBodies ==
    {Transport, JsonNull, JsonList, JsonObject(TRUE, ResultNone)}
    \cup {JsonObject(FALSE, r) : r \in RpcResults}

\* how a Python call ends, and the node calls it made
Return(v, rpc) == [raised |-> "", value |-> v, rpc |-> rpc]
Raise(e, rpc) == [raised |-> e, value |-> Dec(0), rpc |-> rpc]

NodeCall(method, holder, data) == [method |-> method, holder |-> holder, data |-> data]

HexDigit(c) ==
    CASE c = "0" -> 0 [] c = "1" -> 1 [] c = "2" -> 2 [] c = "3" -> 3
      [] c = "4" -> 4 [] c = "5" -> 5 [] c = "6" -> 6 [] c = "7" -> 7
      [] c = "8" -> 8 [] c = "9" -> 9
      [] c \in {"a", "A"} -> 10 [] c \in {"b", "B"} -> 11
      [] c \in {"c", "C"} -> 12 [] c \in {"d", "D"} -> 13
      [] c \in {"e", "E"} -> 14 [] c \in {"f", "F"} -> 15

RECURSIVE HexValue(_)
HexValue(ds) ==
    IF ds = <<>> THEN 0
    ELSE 16 * HexValue(SubSeq(ds, 1, Len(ds) - 1)) + HexDigit(ds[Len(ds)])

\* int(text, 16) on a str: the 0x prefix optional, ValueError otherwise
IntBase16(text) ==
    LET ds == IF StartsWith0x(text) THEN SubSeq(text, 3, Len(text)) ELSE text
    IN  IF ds = <<>> \/ \E i \in 1..Len(ds) : ds[i] \notin HexChars
        THEN Raise("ValueError", {})
        ELSE IF Len(ds) >= WordHexLen THEN Return(DecHuge, {})
        ELSE Return(Dec(HexValue(ds)), {})

\* str.lower()
Lower(s) ==
    [i \in 1..Len(s) |->
        CASE s[i] = "A" -> "a" [] s[i] = "B" -> "b" [] s[i] = "C" -> "c"
          [] s[i] = "D" -> "d" [] s[i] = "E" -> "e" [] s[i] = "F" -> "f"
          [] OTHER -> s[i]]

\* str.replace("0x", "")
RECURSIVE Remove0x(_)
Remove0x(s) ==
    IF Len(s) < 2 THEN s
    ELSE IF StartsWith0x(s) THEN Remove0x(SubSeq(s, 3, Len(s)))
    ELSE <<s[1]>> \o Remove0x(Tail(s))

Selector == <<"7", "0", "a", "0", "8", "2", "3", "1">>

----------------------------------------------------------------------------
(* src/app/routers/wallet.py: the balance lookups and the GET endpoints *)

\* _rpc_call (lines 47-76): the try covers the exchange and resp.json();
\* the test for "error" and data.get("result") come after it
_rpc_call(call, body) ==
    IF ~chatCfg.BSC_RPC_URL THEN Return(ResultNone, {})
    ELSE CASE body.kind = "exception" -> Return(ResultNone, {call})
           [] body.kind = "null" -> Raise("TypeError", {call})
           [] body.kind = "list" -> Raise("AttributeError", {call})
           [] body.kind = "object" ->
                IF body.error THEN Return(ResultNone, {call})
                ELSE Return(body.result, {call})

\* the holder check of lines 85-87 and 136-138
HolderRejected(address) ==
    \/ ~Truthy(address)
    \/ ~StartsWith0x(address)
    \/ Len(address) # 2 + AddrHexLen

\* lines 93-101 and 155-169: "if not result", then int(result, 16) under
\* "except Exception"
HexResultOrZero(r) ==
    IF r.raised # "" THEN r
    ELSE IF Falsy(r.value) THEN Return(Dec(0), r.rpc)
    ELSE IF r.value.type # "str" THEN Return(Dec(0), r.rpc)
    ELSE LET i == IntBase16(r.value.text)
         IN  IF i.raised # "" THEN Return(Dec(0), r.rpc) ELSE Return(i.value, r.rpc)

\* _fetch_bnb_balance (lines 79-101)
_fetch_bnb_balance(address, body) ==
    IF HolderRejected(address) THEN Return(Dec(0), {})
    ELSE HexResultOrZero(_rpc_call(NodeCall("eth_getBalance", address, <<>>), body))

\* _encode_erc20_balance_of (lines 104-120)
_encode_erc20_balance_of(address) ==
    IF ~StartsWith0x(address) THEN Raise("ValueError", {})
    ELSE LET addr_clean == Lower(SubSeq(address, 3, Len(address)))
         IN  IF Len(addr_clean) # AddrHexLen THEN Raise("ValueError", {})
             ELSE Return(<<"0", "x">> \o Selector
                            \o Rep("0", WordHexLen - Len(addr_clean)) \o addr_clean, {})

\* _fetch_slh_balance (lines 123-169)
_fetch_slh_balance(address, body) ==
    IF ~chatCfg.SLH_TOKEN_ADDRESS THEN Return(Dec(0), {})
    ELSE IF HolderRejected(address) THEN Return(Dec(0), {})
    ELSE LET data == _encode_erc20_balance_of(address)
         IN  IF data.raised = "ValueError" THEN Return(Dec(0), {})
             ELSE HexResultOrZero(_rpc_call(NodeCall("eth_call", address, data.value), body))

\* GET /api/wallet/{telegram_id}, get_wallet (lines 311-322)
http_get_wallet(telegram_id) ==
    /\ NoHandlerInFlight
    /\ handler' =
         IF ~HasRow(wallets, telegram_id)
         THEN [Answered("http_get_wallet", telegram_id, "404", 0) EXCEPT !.ok = FALSE]
         ELSE [Answered("http_get_wallet", telegram_id, "200", 0) EXCEPT
                  !.bnb_address = GetRow(wallets, telegram_id).bnb_address,
                  !.slh_address = GetRow(wallets, telegram_id).slh_address]
    /\ UNCHANGED <<deployment, serviceVars, units, upserts, apiVars, walletVars, chatCfg, ledger, hotBroadcasts>>

\* a handler awaiting asyncio.gather of its two lookups
Gathering(command, telegram_id, w, value) ==
    [Idle EXCEPT !.command = command, !.pc = "gather", !.telegram_id = telegram_id,
                 !.bnb_address = w.bnb_address, !.slh_address = w.slh_address,
                 !.value = value, !.pending = {"bnb", "slh"}]

\* GET /api/wallet/{telegram_id}/balances, get_balances (lines 325-339) up to
\* the await of get_balances_live (lines 172-190)
http_get_balances(telegram_id) ==
    /\ NoHandlerInFlight
    /\ handler' =
         IF ~HasRow(wallets, telegram_id)
         THEN [Answered("http_get_balances", telegram_id, "404", 0) EXCEPT !.ok = FALSE]
         ELSE IF ~Truthy(GetRow(wallets, telegram_id).bnb_address)
         THEN Answered("http_get_balances", telegram_id, "200", 0)
         ELSE Gathering("http_get_balances", telegram_id, GetRow(wallets, telegram_id), 0)
    /\ UNCHANGED <<deployment, serviceVars, units, upserts, apiVars, walletVars, chatCfg, ledger, hotBroadcasts>>

\* asyncio.gather as the awaiting handler sees one of its lookups end: an
\* exception ends the handler at once, whatever is still pending (FastAPI
\* answers 500, which carries no balances); the last return lets the handler
\* build its answer
GatherStep(h, which, res) ==
    IF res.raised # ""
    THEN [h EXCEPT !.pc = "idle", !.raised = res.raised, !.text = "500",
                   !.rpc = @ \cup res.rpc, !.pending = @ \ {which},
                   !.bnb_balance = Dec(0), !.slh_balance_onchain = Dec(0)]
    ELSE LET g == [h EXCEPT !.pending = @ \ {which}, !.rpc = @ \cup res.rpc,
                            !.bnb_balance = IF which = "bnb" THEN res.value ELSE @,
                            !.slh_balance_onchain = IF which = "slh" THEN res.value ELSE @]
         IN  IF g.pending = {} THEN [g EXCEPT !.pc = "idle", !.text = "200", !.ok = TRUE]
             ELSE g

\* get_balances_live (lines 172-210): one lookup of the gather ends
http_get_balances_live(which, body) ==
    /\ handler.pc = "gather"
    /\ handler.command = "http_get_balances"
    /\ which \in handler.pending
    /\ handler' = GatherStep(handler, which,
                     IF which = "bnb" THEN _fetch_bnb_balance(handler.bnb_address, body)
                     ELSE _fetch_slh_balance(handler.bnb_address, body))
    /\ UNCHANGED <<deployment, serviceVars, units, upserts, apiVars, walletVars, chatCfg, ledger, hotBroadcasts>>

----------------------------------------------------------------------------
(* src/app/wallet.py: the balance lookups and the GET endpoints *)

\* _rpc_call (lines 17-34): the exchange, resp.json() and data.get("result")
\* are all under "except Exception"
app_rpc_call(call, body) ==
    IF ~chatCfg.BSC_RPC_URL THEN Return(ResultNone, {})
    ELSE IF body.kind = "object" THEN Return(body.result, {call})
    ELSE Return(ResultNone, {call})

\* _decode_hex_to_decimal (lines 37-47): str.startswith on what is not a str
\* raises AttributeError; only ValueError is caught around int(); quantize to
\* 18 places raises InvalidOperation past 28 significant digits
_decode_hex_to_decimal(r) ==
    IF Falsy(r.value) THEN Return(Dec(0), r.rpc)
    ELSE IF r.value.type # "str" THEN Raise("AttributeError", r.rpc)
    ELSE LET hex == IF StartsWith0x(r.value.text)
                    THEN SubSeq(r.value.text, 3, Len(r.value.text)) ELSE r.value.text
             i == IntBase16(IF hex = <<>> THEN <<"0">> ELSE hex)
         IN  IF i.raised = "ValueError" THEN Return(Dec(0), r.rpc)
             ELSE IF i.value.huge THEN Raise("InvalidOperation", r.rpc)
             ELSE Return(i.value, r.rpc)

\* _fetch_bnb_balance (lines 50-52)
app_fetch_bnb_balance(address, body) ==
    _decode_hex_to_decimal(app_rpc_call(NodeCall("eth_getBalance", address, <<>>), body))

\* the call data of lines 60-64
app_balance_of_data(address) ==
    <<"0", "x">> \o Selector \o Rep("0", 24) \o Remove0x(Lower(address))

\* _fetch_slh_balance (lines 55-76)
app_fetch_slh_balance(address, body) ==
    IF ~chatCfg.SLH_TOKEN_ADDRESS THEN Return(Dec(0), {})
    ELSE _decode_hex_to_decimal(
             app_rpc_call(NodeCall("eth_call", address, app_balance_of_data(address)), body))

\* GET /api/wallet/{telegram_id}, get_wallet (lines 178-188)
get_wallet(telegram_id) ==
    /\ NoHandlerInFlight
    /\ handler' =
         IF ~HasRow(wallets, telegram_id)
         THEN [Answered("get_wallet", telegram_id, "404", 0) EXCEPT !.ok = FALSE]
         ELSE [Answered("get_wallet", telegram_id, "200", 0) EXCEPT
                  !.bnb_address = GetRow(wallets, telegram_id).bnb_address,
                  !.slh_address = GetRow(wallets, telegram_id).slh_address]
    /\ UNCHANGED <<deployment, serviceVars, units, upserts, apiVars, walletVars, chatCfg, ledger, hotBroadcasts>>

\* GET /api/wallet/{telegram_id}/balances, get_balances (lines 190-200) up to
\* the await of get_balances_live (lines 104-123): the internal balance is
\* read first
get_balances(telegram_id) ==
    /\ NoHandlerInFlight
    /\ handler' =
         IF ~HasRow(wallets, telegram_id)
         THEN [Answered("balances", telegram_id, "404", 0) EXCEPT !.ok = FALSE]
         ELSE IF ~Truthy(GetRow(wallets, telegram_id).bnb_address)
         THEN [Answered("balances", telegram_id, "200",
                        _get_internal_slh_balance(ledger, telegram_id)) EXCEPT
                  !.slh_address = GetRow(wallets, telegram_id).slh_address]
         ELSE Gathering("balances", telegram_id, GetRow(wallets, telegram_id),
                        _get_internal_slh_balance(ledger, telegram_id))
    /\ UNCHANGED <<deployment, serviceVars, units, upserts, apiVars, walletVars, chatCfg, ledger, hotBroadcasts>>

\* get_balances_live (lines 104-136): one lookup of the gather ends
get_balances_live(which, body) ==
    /\ handler.pc = "gather"
    /\ handler.command = "balances"
    /\ which \in handler.pending
    /\ handler' = GatherStep(handler, which,
                     IF which = "bnb" THEN app_fetch_bnb_balance(handler.bnb_address, body)
                     ELSE app_fetch_slh_balance(
                              Or(handler.slh_address, handler.bnb_address), body))
    /\ UNCHANGED <<deployment, serviceVars, units, upserts, apiVars, walletVars, chatCfg, ledger, hotBroadcasts>>

----------------------------------------------------------------------------
(* src/app/telegram_bot.py: the Application shared by the webhook requests *)

MaxBuilds == 2          \* Application objects constructed in a run

IdleWebhook == [pc |-> "idle", app |-> 0, status |-> 0]

\* lines 27-28: _application = None (0; the objects built are numbered from
\* 1), the lock free (0, else the request holding it); objects counts the
\* Application objects constructed, started those app.start() was called on
\* and returned those get_application handed to a request
NoApplication ==
    [_application |-> 0, _application_lock |-> 0, base_url |-> FALSE,
     objects |-> 0, started |-> {}, returned |-> {},
     req |-> [r \in Threads |-> IdleWebhook]]

\* asyncio.Lock.acquire: only a free lock is taken
LockFree_Always(lock) == TRUE

LockFree(lock) == lock = 0

\* what a raise inside "async with _application_lock" leaves: the lock
\* released, the global as it was, the request answered 500
BuildRaised(r) ==
    [tgApp EXCEPT !._application_lock = 0,
                  !.req[r] = [@ EXCEPT !.pc = "done", !.status = 500]]

\* lines 260-262: the global set, the lock released, the instance returned
BuildReturned(r) ==
    [tgApp EXCEPT !._application = tgApp.req[r].app,
                  !._application_lock = 0,
                  !.returned = @ \cup {tgApp.req[r].app},
                  !.req[r] = [@ EXCEPT !.pc = "process"]]

\* POST /telegram/webhook arrives (line 266) and calls get_application
telegram_webhook(r) ==
    /\ tgApp.req[r].pc \in {"idle", "done"}
    /\ tgApp' = [tgApp EXCEPT !.req[r] = [IdleWebhook EXCEPT !.pc = "acquire"]]
    /\ UNCHANGED <<deployment, units, upserts, apiVars, walletVars, chatVars,
                   bnbPrice, storeCalls, menu>>

\* get_application lines 259-262: the lock taken; the global returned when it
\* is set, else ApplicationBuilder()...build() and the handlers (lines 226-236)
get_application(r) ==
    /\ tgApp.req[r].pc = "acquire"
    /\ LockFree(tgApp._application_lock)
    /\ IF tgApp._application = 0
       THEN /\ tgApp.objects < MaxBuilds
            /\ tgApp' = [tgApp EXCEPT
                           !._application_lock = r,
                           !.objects = @ + 1,
                           !.req[r] = [@ EXCEPT !.pc = "initialize",
                                                !.app = tgApp.objects + 1]]
       ELSE tgApp' = [tgApp EXCEPT
                        !.returned = @ \cup {tgApp._application},
                        !.req[r] = [@ EXCEPT !.pc = "process",
                                             !.app = tgApp._application]]
    /\ UNCHANGED <<deployment, units, upserts, apiVars, walletVars, chatVars,
                   bnbPrice, storeCalls, menu>>

\* build_application line 238: await app.initialize()
build_application_initialize(r, ok) ==
    /\ tgApp.req[r].pc = "initialize"
    /\ tgApp' = IF ok THEN [tgApp EXCEPT !.req[r] = [@ EXCEPT !.pc = "start"]]
                ELSE BuildRaised(r)
    /\ UNCHANGED <<deployment, units, upserts, apiVars, walletVars, chatVars,
                   bnbPrice, storeCalls, menu>>

\* build_application lines 239-250: await app.start(); without BASE_URL the
\* application is returned at once
build_application_start(r, ok) ==
    /\ tgApp.req[r].pc = "start"
    /\ tgApp' = IF ~ok THEN BuildRaised(r)
                ELSE IF tgApp.base_url
                     THEN [tgApp EXCEPT !.started = @ \cup {tgApp.req[r].app},
                                        !.req[r] = [@ EXCEPT !.pc = "set_webhook"]]
                ELSE [BuildReturned(r) EXCEPT !.started = @ \cup {tgApp.req[r].app}]
    /\ UNCHANGED <<deployment, units, upserts, apiVars, walletVars, chatVars,
                   bnbPrice, storeCalls, menu>>

\* build_application lines 242-250: await app.bot.set_webhook(webhook_url)
build_application_set_webhook(r, ok) ==
    /\ tgApp.req[r].pc = "set_webhook"
    /\ tgApp' = IF ok THEN BuildReturned(r) ELSE BuildRaised(r)
    /\ UNCHANGED <<deployment, units, upserts, apiVars, walletVars, chatVars,
                   bnbPrice, storeCalls, menu>>

\* telegram_webhook lines 277-284: the update parsed and processed by the
\* instance the request received; an invalid payload is answered 400
process_update(r, valid) ==
    /\ tgApp.req[r].pc = "process"
    /\ tgApp' = [tgApp EXCEPT !.req[r] =
                    [@ EXCEPT !.pc = "done", !.status = IF valid THEN 200 ELSE 400]]
    /\ UNCHANGED <<deployment, units, upserts, apiVars, walletVars, chatVars,
                   bnbPrice, storeCalls, menu>>

----------------------------------------------------------------------------
(* src/app/telegram.py: the BNB price cache *)

MaxClock == 7           \* minutes the clock of a run advances

CacheTtlMinutes == 5    \* timedelta(minutes=5)

\* Optional[float] / Optional[datetime]: None, or a value; prices in cents,
\* times in minutes
NoValue == [none |-> TRUE, v |-> 0]
Value(v) == [none |-> FALSE, v |-> v]

\* what the GET of line 58 to lines 59-61 comes to: an exception (transport,
\* raise_for_status, a body that is no JSON object, a usd that is no number)
\* or the float of line 61, 0.0 when the key is missing
Fetched(price) == [raised |-> FALSE, price |-> price]
FetchRaised == [raised |-> TRUE, price |-> 0]
FetchOutcomes == {FetchRaised, Fetched(0), Fetched(30000), Fetched(31000)}

\* lines 30-31, the clock, and the last call: where it stands, whether it
\* made the outbound call, what came back and what it returned
NoPriceCache ==
    [_BNB_PRICE_CACHE |-> NoValue, _BNB_PRICE_CACHE_TS |-> NoValue, now |-> 0,
     pc |-> "idle", outbound |-> FALSE, fetched |-> FetchRaised,
     returned |-> NoValue]

\* lines 52-54
CacheFresh_IgnoresAge(c) ==
    ~c._BNB_PRICE_CACHE.none /\ ~c._BNB_PRICE_CACHE_TS.none

CacheFresh(c) ==
    /\ ~c._BNB_PRICE_CACHE.none
    /\ ~c._BNB_PRICE_CACHE_TS.none
    /\ c.now - c._BNB_PRICE_CACHE_TS.v < CacheTtlMinutes

\* _fetch_bnb_price_usd lines 50-58: the cached price returned, or the GET sent
_fetch_bnb_price_usd ==
    /\ bnbPrice.pc = "idle"
    /\ bnbPrice' =
          IF CacheFresh(bnbPrice)
          THEN [bnbPrice EXCEPT !.outbound = FALSE,
                                !.returned = bnbPrice._BNB_PRICE_CACHE]
          ELSE [bnbPrice EXCEPT !.pc = "fetch", !.outbound = TRUE,
                                !.returned = NoValue]
    /\ UNCHANGED <<deployment, units, upserts, apiVars, walletVars, chatVars,
                   tgApp, storeCalls, menu>>

\* _fetch_bnb_price_usd lines 58-71: the answer of the GET, or the exception
_fetch_bnb_price_usd_answer(res) ==
    /\ bnbPrice.pc = "fetch"
    /\ bnbPrice' =
          IF res.raised
          THEN [bnbPrice EXCEPT
                  !.pc = "idle", !.fetched = res,
                  !.returned = IF bnbPrice._BNB_PRICE_CACHE.none
                                  \/ bnbPrice._BNB_PRICE_CACHE.v = 0
                               THEN Value(0) ELSE bnbPrice._BNB_PRICE_CACHE]
          ELSE IF res.price > 0
          THEN [bnbPrice EXCEPT
                  !.pc = "idle", !.fetched = res,
                  !._BNB_PRICE_CACHE = Value(res.price),
                  !._BNB_PRICE_CACHE_TS = Value(bnbPrice.now),
                  !.returned = Value(res.price)]
          ELSE [bnbPrice EXCEPT !.pc = "idle", !.fetched = res,
                                !.returned = Value(res.price)]
    /\ UNCHANGED <<deployment, units, upserts, apiVars, walletVars, chatVars,
                   tgApp, storeCalls, menu>>

\* datetime.utcnow() a minute later
utcnow_advances ==
    /\ bnbPrice.now < MaxClock
    /\ bnbPrice' = [bnbPrice EXCEPT !.now = @ + 1]
    /\ UNCHANGED <<deployment, units, upserts, apiVars, walletVars, chatVars,
                   tgApp, storeCalls, menu>>

----------------------------------------------------------------------------
(* src/bot/user_store.py: concurrent calls on one UserStore *)

\* users.json as __init__ leaves it (lines 8-10): {}
EmptyStore == [u \in {} |-> None]

\* one call of set_wallet or get_wallet: its arguments, the dict it read,
\* what it returned or whether it raised, and the address the task's last
\* completed set_wallet wrote
IdleStoreCall ==
    [pc |-> "idle", op |-> "", user_id |-> "", address |-> None,
     data |-> EmptyStore, returned |-> None, raised |-> FALSE, written |-> None]

\* line 11: self._lock, free (0) or held by a task; each task serves one user
NoStoreCalls == [_lock |-> 0, call |-> [c \in Threads |-> IdleStoreCall]]

UserOfTask(c) == IF c = 1 THEN "1" ELSE "2"

\* async with self._lock (lines 14 and 19)
UserStore_lock_free_Always == TRUE

UserStore_lock_free == storeCalls._lock = 0

\* a task calls set_wallet(user_id, address) (line 18)
UserStore_set_wallet_call(c, address) ==
    /\ storeCalls.call[c].pc \in {"idle", "done"}
    /\ storeCalls' = [storeCalls EXCEPT !.call[c] =
          [IdleStoreCall EXCEPT !.pc = "acquire", !.op = "set_wallet",
                                !.user_id = UserOfTask(c), !.address = address,
                                !.written = storeCalls.call[c].written]]
    /\ UNCHANGED <<deployment, units, upserts, apiVars, walletVars, chatVars,
                   tgApp, bnbPrice, menu>>

\* a task calls get_wallet(user_id) (line 13)
UserStore_get_wallet_call(c) ==
    /\ storeCalls.call[c].pc \in {"idle", "done"}
    /\ storeCalls' = [storeCalls EXCEPT !.call[c] =
          [IdleStoreCall EXCEPT !.pc = "acquire", !.op = "get_wallet",
                                !.user_id = UserOfTask(c),
                                !.written = storeCalls.call[c].written]]
    /\ UNCHANGED <<deployment, units, upserts, apiVars, walletVars, chatVars,
                   tgApp, bnbPrice, menu>>

\* lines 14-15 and 19-20: the lock taken and data = self._read()
UserStore_read(c) ==
    /\ storeCalls.call[c].pc = "acquire"
    /\ UserStore_lock_free
    /\ storeCalls' = [storeCalls EXCEPT
                        !._lock = c,
                        !.call[c] = [@ EXCEPT !.pc = "loaded", !.data = userStore]]
    /\ UNCHANGED <<deployment, units, upserts, apiVars, walletVars, chatVars,
                   tgApp, bnbPrice, menu>>

\* lines 21-24 and _write_atomic (lines 30-41): the dict read, with this
\* user's wallet set, replaces the file; when the temporary file cannot be
\* written the exception leaves the file as it is
UserStore_write_atomic(c, ok) ==
    /\ storeCalls.call[c].pc = "loaded"
    /\ storeCalls.call[c].op = "set_wallet"
    /\ LET q == storeCalls.call[c]
       IN  /\ userStore' = IF ok THEN UserStore_set_wallet(q.data, q.user_id, q.address)
                           ELSE userStore
           /\ storeCalls' = [storeCalls EXCEPT
                               !._lock = 0,
                               !.call[c] = [@ EXCEPT
                                   !.pc = "done", !.raised = ~ok,
                                   !.written = IF ok THEN q.address ELSE @]]
    /\ UNCHANGED <<deployment, units, upserts, apiVars, wallets, walletCall, chatVars,
                   tgApp, bnbPrice, menu>>

\* line 16: data.get(str(user_id), {}).get("wallet")
UserStore_get_wallet_return(c) ==
    /\ storeCalls.call[c].pc = "loaded"
    /\ storeCalls.call[c].op = "get_wallet"
    /\ LET q == storeCalls.call[c]
       IN  storeCalls' = [storeCalls EXCEPT
                            !._lock = 0,
                            !.call[c] = [@ EXCEPT
                                !.pc = "done",
                                !.returned = IF q.user_id \in DOMAIN q.data
                                             THEN q.data[q.user_id] ELSE None]]
    /\ UNCHANGED <<deployment, units, upserts, apiVars, walletVars, chatVars,
                   tgApp, bnbPrice, menu>>

----------------------------------------------------------------------------
(* src/bot/app_webhook.py: the menu-driven bot *)

\* line 12: WALLET_RE.match(text); text is stripped (line 24), so the $ has
\* no trailing newline to skip
WALLET_RE_PrefixOnly(s) == StartsWith0x(s)

WALLET_RE(s) ==
    /\ StartsWith0x(s)
    /\ Len(s) = 2 + AddrHexLen
    /\ \A i \in 3..Len(s) : s[i] \in HexChars

\* the labels of the keyboard (src/bot/keyboards.py) that handle_text routes
\* on, lines 27, 32, 38 and 48; a label is one token of the text
ButtonHelp == <<"[help]">>
ButtonMetaMask == <<"[metamask]">>
ButtonBalance == <<"[balance]">>
ButtonTransfer == <<"[transfer]">>

AmountTexts == {<<"0", ",", "1">>, <<"a", "b", "c">>}

MenuTexts ==
    {ButtonHelp, ButtonMetaMask, ButtonBalance, ButtonTransfer,
     AddrA, AddrB, AddrShort} \cup AmountTexts

\* line 85: text.replace(",", ".")
ReplaceComma(s) == [i \in DOMAIN s |-> IF s[i] = "," THEN "." ELSE s[i]]

\* line 87: float(amt) does not raise.  Of Python's float grammar the sign,
\* the digits and the point are modelled; the texts enumerated carry no
\* exponent, underscore, nan or inf
FloatParses(s) ==
    LET body == IF Len(s) > 0 /\ s[1] \in {"+", "-"} THEN Tail(s) ELSE s
        Digits == {"0", "1", "2", "3", "4", "5", "6", "7", "8", "9"}
    IN  /\ \A i \in DOMAIN body : body[i] \in Digits \cup {"."}
        /\ \E i \in DOMAIN body : body[i] \in Digits
        /\ Cardinality({i \in DOMAIN body : body[i] = "."}) <= 1

\* store.get_wallet(...) and store.set_wallet(...) are called without await
\* (lines 39, 49, 65, 107): the call makes a coroutine object and runs none
\* of the body of the async method; the object is truthy
CoroutineObject == <<"<", "c", "o", "r", "o", "u", "t", "i", "n", "e", ">">>

\* src/bot/slh_api_client.py transfer_slh (lines 31-35): the JSON of a 2xx
\* answer, or the exception of raise_for_status or of the transport
TransferOutcomes == {"ok", "not_ok", "HTTPStatusError", "TimeoutException"}

\* context.user_data of a user before any message
NoUserData == [mode |-> "None", to_addr |-> None]

\* the message handled last: its sender and text, the bot's last reply to it,
\* the exception that ended the handler, whether transfer_slh was called
NoReply == [user_id |-> "", text |-> <<>>, reply |-> "", raised |-> "", called |-> FALSE]

\* the last call of transfer_slh: its arguments, whose message made it and
\* in which mode
NoTransfer == [user_id |-> "", to_addr |-> None, amount_slh |-> <<>>, mode |-> "None"]

NoMenu == [user_data |-> [u \in Users |-> NoUserData], last |-> NoReply,
           transfer |-> NoTransfer]

\* handle_text (lines 23-113) for one message of one user; api is what the
\* call of transfer_slh comes to when the handler makes it, health what
\* healthz comes to
handle_text(user_id, text, api, health) ==
    LET ud == menu.user_data[user_id]
        mode == ud.mode
        Replied(reply, new_ud) ==
            [menu EXCEPT
               !.user_data[user_id] = new_ud,
               !.last = [user_id |-> user_id, text |-> text,
                         reply |-> reply, raised |-> "", called |-> FALSE]]
        Raised(exc) ==
            [menu EXCEPT
               !.last = [user_id |-> user_id, text |-> text,
                         reply |-> "", raised |-> exc, called |-> FALSE]]
    IN  /\ menu' =
              IF text = ButtonHelp
                 THEN Replied("help", ud)
              ELSE IF text = ButtonMetaMask
                 THEN Replied("send address", [ud EXCEPT !.mode = "await_wallet"])
              ELSE IF text = ButtonBalance
                 THEN IF health = "ok" THEN Replied("balance", ud) ELSE Raised(health)
              ELSE IF text = ButtonTransfer
                 THEN LET w == CoroutineObject
                      IN  IF ~Truthy(w)
                          THEN Replied("no wallet", [ud EXCEPT !.mode = "await_wallet"])
                          ELSE Replied("send destination", [ud EXCEPT !.mode = "await_to"])
              ELSE IF mode = "await_wallet"
                 THEN IF WALLET_RE(text)
                      THEN Replied("saved", [ud EXCEPT !.mode = "None"])
                      ELSE Replied("invalid address", ud)
              ELSE IF mode = "await_to"
                 THEN IF WALLET_RE(text)
                      THEN Replied("send amount",
                                   [ud EXCEPT !.to_addr = text, !.mode = "await_amount"])
                      ELSE Replied("invalid address", ud)
              ELSE IF mode = "await_amount"
                 THEN LET amt == ReplaceComma(text)
                          call == [user_id |-> user_id, to_addr |-> ud.to_addr,
                                   amount_slh |-> amt, mode |-> mode]
                      IN  IF ~FloatParses(amt)
                              THEN Replied("invalid amount", ud)
                          ELSE IF api = "ok"
                              THEN [Replied("transferred", [ud EXCEPT !.mode = "None"])
                                        EXCEPT !.transfer = call, !.last.called = TRUE]
                          ELSE IF api = "not_ok"
                              THEN [Replied("transfer failed", [ud EXCEPT !.mode = "None"])
                                        EXCEPT !.transfer = call, !.last.called = TRUE]
                          ELSE [Raised(api) EXCEPT !.transfer = call, !.last.called = TRUE]
              ELSE IF WALLET_RE(text)
                 THEN Replied("saved", ud)
              ELSE Replied("not recognised", ud)
        /\ UNCHANGED <<deployment, units, upserts, apiVars, walletVars, chatVars,
                       tgApp, bnbPrice, storeCalls>>

----------------------------------------------------------------------------
(* Specifications *)

ServicesUnused ==
    /\ tgApp = NoApplication
    /\ bnbPrice = NoPriceCache
    /\ storeCalls = NoStoreCalls
    /\ menu = NoMenu

InitApi ==
    /\ UnitsUnused
    /\ UpsertsUnused
    /\ ServicesUnused
    /\ deployment = "api"
    /\ apiCfg \in ApiConfigs
    /\ chain \in [decimals : 0..MaxDecimals, balance : OperatorBalances, nonce : {0}]
    /\ apiReq = [r \in {1} |-> IdleReq]
    /\ apiBroadcasts = <<>>
    /\ WalletsUnused
    /\ ChatUnused

NextApi ==
    \/ \E r \in DOMAIN apiReq, h \in ApiHeaders, a \in ApiToAddrs, m \in ApiAmounts :
           transfer_slh_guard(r, h, a, m)
    \/ \E r \in DOMAIN apiReq, rpc_ok \in BOOLEAN : transfer_slh_decimals(r, rpc_ok)
    \/ \E r \in DOMAIN apiReq, rpc_ok \in BOOLEAN : transfer_slh_balanceOf(r, rpc_ok)
    \/ \E r \in DOMAIN apiReq, rpc_ok \in BOOLEAN : transfer_slh_gas_price(r, rpc_ok)
    \/ \E r \in DOMAIN apiReq, rpc_ok \in BOOLEAN : transfer_slh_nonce(r, rpc_ok)
    \/ \E r \in DOMAIN apiReq, rpc_ok \in BOOLEAN : transfer_slh_send(r, rpc_ok)

SpecApi == InitApi /\ [][NextApi]_vars

ApiUnused ==
    /\ apiCfg \in {CHOOSE c \in ApiConfigs : TRUE}
    /\ chain = [decimals |-> 0, balance |-> 0, nonce |-> 0]
    /\ apiReq = [r \in {1} |-> IdleReq]
    /\ apiBroadcasts = <<>>

InitWallet ==
    /\ UnitsUnused
    /\ UpsertsUnused
    /\ ServicesUnused
    /\ deployment = "wallet"
    /\ ApiUnused
    /\ WalletsUnused
    /\ ChatUnused

NextWallet ==
    \/ \E u \in Users, a \in WalletAddrInputs, t \in {None, TonA} :
           \E n \in {None, UsernameOf(u)} : http_set_wallet(u, n, a, t)
    \/ \E u \in Users, a \in WalletAddrInputs :
           \E n \in {None, UsernameOf(u)} : http_set_wallet_app(u, n, a, None)
    \/ \E u \in Users, a \in WalletAddrInputs, t \in {None, TonA} :
           cmd_set_wallet(u, a, t)

SpecWallet == InitWallet /\ [][NextWallet]_vars

InitBot ==
    /\ UnitsUnused
    /\ UpsertsUnused
    /\ ServicesUnused
    /\ deployment = "bot"
    /\ ApiUnused
    /\ WalletsUnused
    /\ ChatUnused

NextBot ==
    \E u \in Users, a \in WalletAddrInputs \cup {AddrNonHex, AddrNoPfx} : setwallet(u, a)

SpecBot == InitBot /\ [][NextBot]_vars

InitChat ==
    /\ UnitsUnused
    /\ UpsertsUnused
    /\ ServicesUnused
    /\ deployment = "app"
    /\ ApiUnused
    /\ WalletsUnused
    /\ chatCfg \in ChatConfigs
    /\ ledger = <<>>
    /\ handler = Idle
    /\ hotBroadcasts = <<>>

NextChat ==
    \/ \E u \in Users, a \in {AddrA, AddrShort} : webhook_set_wallet(u, a, None)
    \/ \E u \in Users, m \in ChatAmounts, t \in SendTargets : send_slh_record(u, m, t)
    \/ \E rpc \in RpcOutcomes : send_slh_onchain(rpc)
    \/ \E u \in Users : claim(u)
    \/ \E u \in Users, m \in ChatAmounts, ts \in AirdropTargets : airdrop(u, m, ts)
    \/ \E u \in Users : get_balances(u)
    \/ \E which \in {"bnb", "slh"}, body \in ChatRpcBodies : get_balances_live(which, body)
    \/ \E u \in Users : admin(u)

SpecChat == InitChat /\ [][NextChat]_vars

\* the wallet endpoints of the app, in either variant of the router:
\* src/app/routers/wallet.py ("http") or src/app/wallet.py ("http_app")
ReadConfigs ==
    {[ChatEnv(FALSE, TRUE, 0, 15, Num(0), {}) EXCEPT
         !.BSC_RPC_URL = c[1], !.SLH_TOKEN_ADDRESS = c[2]] :
       c \in {<<TRUE, TRUE>>, <<FALSE, TRUE>>, <<TRUE, FALSE>>}}

ReadAddrInputs == {AddrA, AddrB, AddrNonHex, AddrShort, AddrEmpty}

\* the users who set a wallet in these runs; the others never have a row
ReadWriters == {"2"}

InitRead ==
    /\ UnitsUnused
    /\ UpsertsUnused
    /\ ServicesUnused
    /\ deployment \in {"http", "http_app"}
    /\ ApiUnused
    /\ WalletsUnused
    /\ chatCfg \in ReadConfigs
    /\ ledger = <<>>
    /\ handler = Idle
    /\ hotBroadcasts = <<>>

NextRead ==
    \/ /\ deployment = "http"
       /\ \/ \E u \in ReadWriters, a \in ReadAddrInputs :
                 http_set_wallet(u, UsernameOf(u), a, None)
          \/ \E u \in Users : http_get_wallet(u)
          \/ \E u \in Users : http_get_balances(u)
          \/ \E which \in {"bnb", "slh"}, body \in RpcBodies :
                 http_get_balances_live(which, body)
    \/ /\ deployment = "http_app"
       /\ \/ \E u \in ReadWriters, a \in ReadAddrInputs :
                 http_set_wallet_app(u, UsernameOf(u), a, None)
          \/ \E u \in Users : get_wallet(u)
          \/ \E u \in Users : get_balances(u)
          \/ \E which \in {"bnb", "slh"}, body \in RpcBodies :
                 get_balances_live(which, body)

SpecRead == InitRead /\ [][NextRead]_vars

\* the unit conversions on their own
InitUnits ==
    /\ deployment = "units"
    /\ UpsertsUnused
    /\ ServicesUnused
    /\ units \in [op : {"input"}, a : UnitAmounts, d : UnitDecimals,
                  amount_wei : {<<0>>}, read : {FALSE}, human : {D(<<0>>, 0)}]
    /\ ApiUnused
    /\ WalletsUnused
    /\ ChatUnused

NextUnits ==
    \/ units_transfer_slh
    \/ units_send_slh_bsc_onchain
    \/ units_token_balance

SpecUnits == InitUnits /\ [][NextUnits]_vars

\* the bot variant's /set_wallet calls in their worker threads
InitUpsert ==
    /\ deployment = "threads"
    /\ UnitsUnused
    /\ UpsertsUnused
    /\ ServicesUnused
    /\ ApiUnused
    /\ WalletsUnused
    /\ ChatUnused

NextUpsert ==
    \/ \E c \in Threads, u \in Users, a \in {AddrA, AddrB} : _upsert_wallet_sync_get(c, u, a)
    \/ \E c \in Threads : _upsert_wallet_sync_commit(c)

SpecUpsert == InitUpsert /\ [][NextUpsert]_vars

\* POST /transfer/slh is a sync endpoint: FastAPI runs each request in a
\* worker thread, so requests are processed side by side
ConcurrentApiConfigs == {c \in ApiConfigs : c.INTERNAL_API_KEY = "" /\ c.OPERATOR_PK}

InitApiConcurrent ==
    /\ UnitsUnused
    /\ UpsertsUnused
    /\ ServicesUnused
    /\ deployment = "api_threads"
    /\ apiCfg \in ConcurrentApiConfigs
    /\ chain \in [decimals : {0}, balance : OperatorBalances, nonce : {0}]
    /\ apiReq = [r \in Threads |-> IdleReq]
    /\ apiBroadcasts = <<>>
    /\ WalletsUnused
    /\ ChatUnused

NextApiConcurrent ==
    \/ \E r \in DOMAIN apiReq, a \in {AddrA, AddrShort},
          m \in {Num(10 * OneToken), Num(5 * OneToken), Num(0)} :
           transfer_slh_guard(r, NoHeader, a, m)
    \/ \E r \in DOMAIN apiReq, rpc_ok \in BOOLEAN : transfer_slh_decimals(r, rpc_ok)
    \/ \E r \in DOMAIN apiReq, rpc_ok \in BOOLEAN : transfer_slh_balanceOf(r, rpc_ok)
    \/ \E r \in DOMAIN apiReq, rpc_ok \in BOOLEAN : transfer_slh_gas_price(r, rpc_ok)
    \/ \E r \in DOMAIN apiReq, rpc_ok \in BOOLEAN : transfer_slh_nonce(r, rpc_ok)
    \/ \E r \in DOMAIN apiReq, rpc_ok \in BOOLEAN : transfer_slh_send(r, rpc_ok)

SpecApiConcurrent == InitApiConcurrent /\ [][NextApiConcurrent]_vars

\* a run of any service that stores wallet addresses
InitStores == InitWallet \/ InitBot \/ InitChat

NextStores ==
    \/ deployment = "wallet" /\ NextWallet
    \/ deployment = "bot" /\ NextBot
    \/ deployment = "app" /\ NextChat

SpecStores == InitStores /\ [][NextStores]_vars

\* a run of either service that signs token transfers
InitGateway == InitApi \/ InitChat

NextGateway ==
    \/ deployment = "api" /\ NextApi
    \/ deployment = "app" /\ NextChat

SpecGateway == InitGateway /\ [][NextGateway]_vars

\* the webhook endpoint of src/app/telegram_bot.py under two concurrent requests
InitWebhook ==
    /\ UnitsUnused
    /\ UpsertsUnused
    /\ deployment = "telegram_bot"
    /\ ApiUnused
    /\ WalletsUnused
    /\ ChatUnused
    /\ \E b \in BOOLEAN : tgApp = [NoApplication EXCEPT !.base_url = b]
    /\ bnbPrice = NoPriceCache
    /\ storeCalls = NoStoreCalls
    /\ menu = NoMenu

NextWebhook ==
    \E r \in Threads :
        \/ telegram_webhook(r)
        \/ get_application(r)
        \/ \E ok \in BOOLEAN : build_application_initialize(r, ok)
        \/ \E ok \in BOOLEAN : build_application_start(r, ok)
        \/ \E ok \in BOOLEAN : build_application_set_webhook(r, ok)
        \/ \E valid \in BOOLEAN : process_update(r, valid)

SpecWebhook == InitWebhook /\ [][NextWebhook]_vars

\* the price lookups of /balances of src/app/telegram.py, one at a time
InitPrice ==
    /\ UnitsUnused
    /\ UpsertsUnused
    /\ deployment = "price"
    /\ ApiUnused
    /\ WalletsUnused
    /\ ChatUnused
    /\ tgApp = NoApplication
    /\ bnbPrice = NoPriceCache
    /\ storeCalls = NoStoreCalls
    /\ menu = NoMenu

NextPrice ==
    \/ _fetch_bnb_price_usd
    \/ \E res \in FetchOutcomes : _fetch_bnb_price_usd_answer(res)
    \/ utcnow_advances

SpecPrice == InitPrice /\ [][NextPrice]_vars

\* two tasks of one event loop calling one UserStore, each for its own user
InitUserStore ==
    /\ UnitsUnused
    /\ UpsertsUnused
    /\ deployment = "user_store"
    /\ ApiUnused
    /\ WalletsUnused
    /\ ChatUnused
    /\ tgApp = NoApplication
    /\ bnbPrice = NoPriceCache
    /\ storeCalls = NoStoreCalls
    /\ menu = NoMenu

NextUserStore ==
    \E c \in Threads :
        \/ \E a \in {AddrA, AddrB} : UserStore_set_wallet_call(c, a)
        \/ UserStore_get_wallet_call(c)
        \/ UserStore_read(c)
        \/ \E ok \in BOOLEAN : UserStore_write_atomic(c, ok)
        \/ UserStore_get_wallet_return(c)

SpecUserStore == InitUserStore /\ [][NextUserStore]_vars

\* the menu-driven bot of src/bot/app_webhook.py; updates are handled one
\* at a time (ApplicationBuilder without concurrent_updates, line 116).
\* users.json is empty or holds a wallet that the polling bot, which shares
\* PERSIST_FILE, saved for user "1"
InitMenu ==
    /\ UnitsUnused
    /\ UpsertsUnused
    /\ deployment = "menu"
    /\ ApiUnused
    /\ wallets = {}
    /\ userStore \in {EmptyStore, [u \in {"1"} |-> AddrB]}
    /\ walletCall = NoCall
    /\ ChatUnused
    /\ tgApp = NoApplication
    /\ bnbPrice = NoPriceCache
    /\ storeCalls = NoStoreCalls
    /\ menu = NoMenu

NextMenu ==
    \E user_id \in Users, text \in MenuTexts, api \in TransferOutcomes,
       health \in {"ok", "HTTPStatusError"} :
        handle_text(user_id, text, api, health)

SpecMenu == InitMenu /\ [][NextMenu]_vars

----------------------------------------------------------------------------
(* Claims about signing and broadcasting transfers *)

\* C1 as stated: a transfer whose operator balance is below the amount in
\* minimal units fails with the insufficient-balance failure and nothing is
\* broadcast, by POST /transfer/slh and by the hot-wallet send of /send_slh.
C1_Original ==
    /\ \A r \in DOMAIN apiReq :
          LET q == apiReq[r]
          IN  ("balanceOf" \in q.calls /\ q.raised = "" /\ q.op_bal < q.amount_wei)
                => (q.status = 400 /\ q.detail = "insufficient token balance in operator")
    /\ \A i \in 1..Len(apiBroadcasts) :
          apiBroadcasts[i].op_bal >= apiBroadcasts[i].amount_wei
    /\ \A i \in 1..Len(hotBroadcasts) :
          hotBroadcasts[i].balance >= hotBroadcasts[i].amount_wei

\* C2 as stated: whatever was signed and broadcast, by either service, went to
\* a destination that passed the address check and carried a strictly positive
\* amount of minimal units.
C2_Original ==
    /\ \A i \in 1..Len(apiBroadcasts) :
          /\ Web3_is_address(apiBroadcasts[i].to)
          /\ apiBroadcasts[i].amount_wei > 0
    /\ \A i \in 1..Len(hotBroadcasts) :
          /\ Web3_is_address(hotBroadcasts[i].to)
          /\ hotBroadcasts[i].amount_wei > 0

\* C3 as stated: with a shared secret configured, every request whose
\* X-Internal-Key is missing or different is answered 403 with no chain read,
\* signature or broadcast; with none configured no request is answered 403.
C3_Original ==
    \A r \in DOMAIN apiReq :
        LET q == apiReq[r]
            matches == q.header.present /\ q.header.value = apiCfg.INTERNAL_API_KEY
        IN  q.pc # "idle" =>
              /\ (apiCfg.INTERNAL_API_KEY # "" /\ ~matches)
                    => (q.pc = "done" /\ q.status = 403 /\ q.calls = {})
              /\ apiCfg.INTERNAL_API_KEY = "" => q.status # 403

\* C3 amended: with a shared secret configured, a request whose X-Internal-Key
\* is missing or different makes no chain read, signature or broadcast; it is
\* answered 403 when its body is valid and 422 (body validation, which runs
\* before the handler) when it is not.  With no secret configured the header
\* is ignored: no request is answered 403.
C3_KeyGuardBeforeChain ==
    \A r \in DOMAIN apiReq :
        LET q == apiReq[r]
            matches == q.header.present /\ q.header.value = apiCfg.INTERNAL_API_KEY
        IN  q.pc # "idle" =>
              /\ (apiCfg.INTERNAL_API_KEY # "" /\ ~matches)
                    => /\ q.pc = "done"
                       /\ q.calls = {}
                       /\ q.status = IF TransferInValid(q.amount_slh) THEN 403 ELSE 422
              /\ apiCfg.INTERNAL_API_KEY = "" => q.status # 403

\* a request without the header is turned away by the configured guard
C3_Witness ==
    \E r \in DOMAIN apiReq :
        /\ apiCfg.INTERNAL_API_KEY # ""
        /\ ~apiReq[r].header.present
        /\ apiReq[r].status = 403

\* C10 as stated: a transfer whose chain call failed broadcast nothing and its
\* caller was told it failed, never that it succeeded.
C10_Original ==
    /\ \A r \in DOMAIN apiReq :
          apiReq[r].raised # "" => (apiReq[r].pc = "done" /\ ~apiReq[r].ok)
    /\ (handler.command = "/send_slh" /\ handler.called /\ handler.raised # "")
          => /\ handler.tx_hash_onchain = NoHash
             /\ handler.text # "transfer accepted"

\* C10 amended: a POST /transfer/slh whose chain call fails broadcasts nothing
\* and is answered 500, never success.  A /send_slh whose gateway call fails
\* broadcasts nothing and its confirmation carries no transaction hash, but
\* the failure is not surfaced: the sender is still told the transfer was
\* accepted.
C10_FailedChainCall ==
    /\ [](/\ \A r \in DOMAIN apiReq :
                apiReq[r].raised # ""
                    => (apiReq[r].pc = "done" /\ apiReq[r].status = 500 /\ ~apiReq[r].ok)
          /\ (handler.command = "/send_slh" /\ handler.called /\ handler.raised # "")
                => /\ handler.tx_hash_onchain = NoHash
                   /\ handler.text = "transfer accepted"
                   /\ handler.ok)
    /\ [][/\ \A r \in DOMAIN apiReq :
                (apiReq[r].raised = "" /\ apiReq'[r].raised # "")
                    => apiBroadcasts' = apiBroadcasts
          /\ (handler.pc = "onchain" /\ handler'.raised # "")
                => hotBroadcasts' = hotBroadcasts]_vars

\* the gateway raised under /send_slh, nothing went out, the sender was
\* answered
C10_Witness ==
    /\ handler.command = "/send_slh"
    /\ handler.called
    /\ handler.raised = "Web3Exception"
    /\ handler.text = "transfer accepted"
    /\ hotBroadcasts = <<>>

----------------------------------------------------------------------------
(* Claims about the wallet store *)

\* C4 as stated: once a set-wallet call for a user who already had address a1
\* stored has answered success for a different address a2, there is exactly
\* one row for that user and its chain address is a2.
C4_Original ==
    (walletCall.ok /\ walletCall.before # None
                   /\ walletCall.address # walletCall.before)
        => /\ Cardinality({w \in wallets : w.telegram_id = walletCall.telegram_id}) = 1
           /\ StoredAddress(wallets, walletCall.telegram_id) = walletCall.address

\* C5 as stated: every chain address held by either store is 0x followed by
\* exactly 40 hex characters.
C5_Original ==
    /\ \A w \in wallets : ADDR_RE(w.bnb_address)
    /\ \A u \in DOMAIN userStore : ADDR_RE(userStore[u])

----------------------------------------------------------------------------
(* Claims about the ledger *)

\* C6 as stated: every ledger entry has an amount strictly greater than zero.
C6_Original == \A i \in 1..Len(ledger) : ledger[i].amount > 0

\* C7 as stated: no step changes a field of a committed entry or removes one.
C7_Original ==
    [][\A i \in 1..Len(ledger) :
          i <= Len(ledger') /\ ledger'[i] = ledger[i]]_vars

\* C7 amended: no step removes an entry, and the only change a committed entry
\* ever undergoes is the one-time upgrade by the /send_slh that wrote it, from
\* (INTERNAL, not on-chain, no hash) to (BSC, on-chain, the gateway's hash);
\* its id, parties, amount, currency and note never change.
C7_AppendOnlyButUpgrade ==
    [][\A i \in 1..Len(ledger) :
          /\ i <= Len(ledger')
          /\ \/ ledger'[i] = ledger[i]
             \/ /\ handler.pc = "onchain"
                /\ handler.row = ledger[i].id
                /\ ledger[i].chain = "INTERNAL"
                /\ ~ledger[i].onchain
                /\ ledger[i].tx_hash = NoHash
                /\ ledger'[i].tx_hash # NoHash
                /\ ledger'[i] = [ledger[i] EXCEPT !.chain = "BSC", !.onchain = TRUE,
                                                  !.tx_hash = ledger'[i].tx_hash]]_vars

\* an entry was upgraded while another entry stood beside it
C7_Witness ==
    /\ Len(ledger) >= 2
    /\ \E i \in 1..Len(ledger) : ledger[i].chain = "BSC" /\ ledger[i].onchain

\* C8: the internal balance the balances endpoint answers for u is the sum of
\* the amounts of the SLH entries on chain INTERNAL whose recipient is u minus
\* the sum of those whose sender is u.
C8_InternalBalance ==
    LET signed(t, u) ==
            IF t.currency = "SLH" /\ t.chain = "INTERNAL"
            THEN (IF t.to_telegram_id = u THEN t.amount ELSE 0)
                 - (IF t.from_telegram_id = u THEN t.amount ELSE 0)
            ELSE 0
        net[i \in 0..Len(ledger)] ==
            IF i = 0 THEN 0 ELSE net[i - 1] + signed(ledger[i], handler.telegram_id)
    IN  (handler.command = "balances" /\ handler.text = "200")
            => handler.value = net[Len(ledger)]

\* the example of the claim: a credit of 100 and a debit of 30 answer 70
C8_Witness ==
    /\ handler.command = "balances"
    /\ handler.text = "200"
    /\ Len(ledger) = 2
    /\ ledger[1].to_telegram_id = handler.telegram_id
    /\ ledger[1].amount = 100 * OneToken
    /\ ledger[2].from_telegram_id = handler.telegram_id
    /\ ledger[2].to_telegram_id # handler.telegram_id
    /\ ledger[2].amount = 30 * OneToken
    /\ ledger[2].chain = "INTERNAL"
    /\ handler.value = 70 * OneToken

\* C9: with on-chain sending enabled, a /send_slh whose gateway call raised
\* leaves its entry on chain INTERNAL, not on-chain and without a hash, and the
\* command has answered its sender as usual.
C9_GatewayFailureNonFatal ==
    (handler.command = "/send_slh" /\ handler.called /\ handler.raised # "")
        => /\ _onchain_enabled
           /\ handler.pc = "idle"
           /\ handler.ok
           /\ handler.text = "transfer accepted"
           /\ \E i \in 1..Len(ledger) :
                 /\ ledger[i].id = handler.row
                 /\ ledger[i].chain = "INTERNAL"
                 /\ ~ledger[i].onchain
                 /\ ledger[i].tx_hash = NoHash

\* the gateway was called with on-chain sending enabled and raised
C9_Witness ==
    /\ _onchain_enabled
    /\ handler.command = "/send_slh"
    /\ handler.called
    /\ handler.raised \in {"OnchainConfigError", "ValueError", "Web3Exception"}
    /\ handler.pc = "idle"

----------------------------------------------------------------------------
(* Claims about the admin commands *)

\* C11: a /airdrop or /admin step of a caller who is not in the configured
\* allow-list writes no ledger entry, notifies no recipient and answers with
\* the refusal, never with the admin panel or an airdrop summary.
C11_AdminOnly ==
    [][(handler'.command \in {"/airdrop", "/admin"}
          /\ handler'.telegram_id \notin chatCfg.admin_owner_ids)
        => /\ ledger' = ledger
           /\ handler'.notified = {}
           /\ handler'.text = "forbidden"]_vars

\* a caller outside the allow-list asked for an airdrop to a registered user
C11_Witness ==
    /\ handler.command = "/airdrop"
    /\ handler.telegram_id \notin chatCfg.admin_owner_ids
    /\ handler.text = "forbidden"
    /\ \E w \in wallets : w.telegram_id = "2"

----------------------------------------------------------------------------
(* Claims about the wallet endpoints and their balance lookups *)

\* C12: the native and the token balance lookup never raise: whatever the
\* node answers, the balances endpoint answers 200 (with zero for a lookup
\* that failed) and never ends on an exception.
C12_Original ==
    handler.command \in {"http_get_balances", "balances"} => handler.raised = ""

\* C13 as stated: GET /api/wallet/{id} answers the stored record exactly when
\* a set-wallet for the user succeeded earlier (the table starts empty and
\* only set-wallet writes it), with the address last set; for a user with no
\* record it and GET /api/wallet/{id}/balances answer 404, and the balances
\* endpoint calls the node for no such user.
C13_Original ==
    [][(handler' # handler /\ handler'.pc = "idle")
        => LET u == handler'.telegram_id
           IN  /\ handler'.command \in {"http_get_wallet", "get_wallet"}
                   => /\ handler'.text = (IF HasRow(wallets, u) THEN "200" ELSE "404")
                      /\ (HasRow(wallets, u) /\ walletCall.ok /\ walletCall.telegram_id = u)
                             => handler'.bnb_address = walletCall.address
               /\ (handler'.command \in {"http_get_balances", "balances"}
                     /\ ~HasRow(wallets, u))
                   => handler'.text = "404" /\ handler'.rpc = {}]_vars

\* C15 as stated: in every stored wallet row the SLH address equals the chain
\* address, and the holder a token-balance query names is the chain address
\* of the row the endpoint loaded.
C15_Original ==
    /\ \A w \in wallets : w.slh_address = w.bnb_address
    /\ \A c \in handler.rpc : c.method = "eth_call" => c.holder = handler.bnb_address

\* C17 as stated: every balanceOf call data sent to the node is 0x, the
\* 8-character selector and one 64-character word, all hex, and it is made
\* only for a holder address that is 0x followed by 40 hex characters (for
\* any other address the encoding fails and no call is made).
C17_Original ==
    \A c \in handler.rpc :
        c.method = "eth_call"
            => /\ ADDR_RE(c.holder)
               /\ StartsWith0x(c.data)
               /\ Len(c.data) = 2 + Len(Selector) + WordHexLen
               /\ \A i \in 3..Len(c.data) : c.data[i] \in HexChars

\* C18 as stated: of two upserts for one user id that run side by side, each
\* one that has ended succeeded (none raised), and the store holds exactly one
\* row for that id, whose address is the address of one of the two calls.
C18_Original ==
    \A c \in Threads :
        upserts[c].pc = "done"
            => /\ upserts[c].ok
               /\ upserts[c].raised = ""
               /\ Cardinality({w \in wallets : w.telegram_id = upserts[c].telegram_id}) = 1
               /\ (\A k \in Threads : upserts[k].pc = "done"
                                       /\ upserts[k].telegram_id = upserts[c].telegram_id)
                      => StoredAddress(wallets, upserts[c].telegram_id)
                             \in {upserts[k].bnb_address : k \in Threads}

\* C19 as stated: the balances endpoint has answered only when neither of
\* its two lookups is still pending, and the end of one lookup, whichever
\* comes first and however it ends, leaves the other lookup's balance as it is.
C19_Original ==
    /\ []((handler.command \in {"http_get_balances", "balances"} /\ handler.pc = "idle")
             => handler.pending = {})
    /\ [][(handler.pc = "gather" /\ handler'.command = handler.command
             /\ handler'.telegram_id = handler.telegram_id)
            => /\ handler'.pending = handler.pending \ {"bnb"}
                   => handler'.slh_balance_onchain = handler.slh_balance_onchain
               /\ handler'.pending = handler.pending \ {"slh"}
                   => handler'.bnb_balance = handler.bnb_balance]_vars

----------------------------------------------------------------------------
(* Claims about repeated and concurrent transfers *)

\* C14: transfers are not deduplicated.  A POST /transfer/slh whose amount is
\* a positive number is never answered with a validation error, whatever was
\* broadcast before, and every such request answered 200 adds one broadcast
\* of its own destination and amount; a /send_slh is refused only for an
\* invalid amount, a missing sender wallet or a missing recipient, and
\* otherwise appends one ledger entry of its own sender, recipient and amount.
C14_NoDeduplication ==
    /\ [](\A r \in DOMAIN apiReq :
             (apiReq[r].pc = "done" /\ apiReq[r].status = 422)
                 => ~(apiReq[r].amount_slh.numeric /\ apiReq[r].amount_slh.n > 0))
    /\ [][/\ \A r \in DOMAIN apiReq :
               (apiReq[r].pc = "send" /\ apiReq'[r].status = 200)
                   => /\ Len(apiBroadcasts') = Len(apiBroadcasts) + 1
                      /\ SubSeq(apiBroadcasts', 1, Len(apiBroadcasts)) = apiBroadcasts
                      /\ apiBroadcasts'[Len(apiBroadcasts')].to = apiReq[r].to_addr
                      /\ apiBroadcasts'[Len(apiBroadcasts')].amount_wei = apiReq[r].amount_wei
          /\ (handler.pc = "idle" /\ handler' # handler /\ handler'.command = "/send_slh")
               => \/ /\ handler'.text \in {"invalid amount", "no wallet", "no recipient"}
                     /\ ledger' = ledger
                  \/ /\ handler'.pc = "onchain"
                     /\ Len(ledger') = Len(ledger) + 1
                     /\ SubSeq(ledger', 1, Len(ledger)) = ledger
                     /\ ledger'[Len(ledger')].from_telegram_id = handler'.telegram_id
                     /\ ledger'[Len(ledger')].to_telegram_id = handler'.to_telegram_id
                     /\ ledger'[Len(ledger')].amount = handler'.amount]_vars

\* the same transfer request went through twice: two broadcasts of one
\* destination and one amount
C14_Witness ==
    /\ Len(apiBroadcasts) = 2
    /\ apiBroadcasts[1].to = apiBroadcasts[2].to
    /\ apiBroadcasts[1].amount_slh = apiBroadcasts[2].amount_slh
    /\ apiBroadcasts[1].amount_wei = apiBroadcasts[2].amount_wei
    /\ apiBroadcasts[1].nonce # apiBroadcasts[2].nonce

----------------------------------------------------------------------------
(* Claims about unit conversion *)

\* C16 as stated: the minimal units computed for an amount a and decimals d
\* are the digits of a * 10^d with the fraction cut off (truncation toward
\* zero), and for an amount of at most d fractional digits the human amount
\* computed back from them equals a.
C16_Original ==
    LET exact == IntOf(D(units.a.digits \o Zeros(units.d), units.a.exp))
    IN  /\ units.op \in {"transfer_slh", "send_slh_bsc_onchain"}
            => units.amount_wei = exact
        /\ (units.read /\ -units.a.exp <= units.d)
            => DecimalEq(units.human, units.a)

\* C20 as stated: two requests that stand before send_raw_transaction at the
\* same time hold distinct operator nonces, and their amounts together do not
\* exceed the operator balance either of them read in its check.
C20_Original ==
    \A r1, r2 \in DOMAIN apiReq :
        (r1 # r2 /\ apiReq[r1].pc = "send" /\ apiReq[r2].pc = "send")
            => /\ apiReq[r1].nonce # apiReq[r2].nonce
               /\ apiReq[r1].amount_wei + apiReq[r2].amount_wei <= apiReq[r1].op_bal
               /\ apiReq[r1].amount_wei + apiReq[r2].amount_wei <= apiReq[r2].op_bal

----------------------------------------------------------------------------
(* Claims about the internal ledger *)

\* C21: internal value is conserved: the internal balances of all users add
\* up to the sum of the amounts of the entries with no source user (which are
\* all internal); transfers between users, upgraded or not, add nothing.
C21_Conservation ==
    LET SumBalances[S \in SUBSET Users] ==
            IF S = {} THEN 0
            ELSE LET u == CHOOSE x \in S : TRUE
                 IN  _get_internal_slh_balance(ledger, u) + SumBalances[S \ {u}]
        system == SelectSeq(ledger, LAMBDA t : t.from_telegram_id = NoneId)
    IN  /\ SumBalances[Users] = SumAmount(system)
        /\ \A i \in 1..Len(system) : system[i].chain = "INTERNAL"

\* a reward was claimed and a transfer between users was upgraded to an
\* on-chain entry
C21_Witness ==
    /\ \E i \in 1..Len(ledger) :
           ledger[i].from_telegram_id = NoneId /\ ledger[i].amount > 0
    /\ \E i \in 1..Len(ledger) :
           ledger[i].from_telegram_id \in Users /\ ledger[i].chain = "BSC"

\* C22: every user's internal balance is at least zero after any sequence of
\* /send_slh, /airdrop and /claim: a transfer or an airdrop larger than the
\* sender's internal balance records no debit.
C22_Original ==
    \A u \in Users : _get_internal_slh_balance(ledger, u) >= 0

\* C23: /send_slh writes its entry only when the sender and the recipient
\* named by @username or by user id both have a wallet record; when either is
\* missing the handler ends without an entry, without a call of the gateway
\* and without a notification, and a gateway call or a notification of
\* /send_slh always belongs to a written entry between two stored wallets.
C23_BothWallets ==
    /\ []((/\ handler.command = "/send_slh"
           /\ (handler.called \/ handler.notified # {} \/ handler.pc = "onchain"))
          => \E i \in 1..Len(ledger) :
                /\ ledger[i].id = handler.row
                /\ ledger[i].from_telegram_id = handler.telegram_id
                /\ ledger[i].to_telegram_id = handler.to_telegram_id
                /\ \E w \in wallets : w.telegram_id = handler.telegram_id
                /\ \E w \in wallets : w.telegram_id = handler.to_telegram_id)
    /\ [][\A telegram_id \in Users, amount_raw \in ChatAmounts,
             target_raw \in SendTargets :
              (/\ send_slh_record(telegram_id, amount_raw, target_raw)
               /\ \/ ~\E w \in wallets : w.telegram_id = telegram_id
                  \/ ~\E w \in wallets :
                        IF target_raw[1] = "@"
                        THEN w.username = Tail(target_raw)
                        ELSE <<w.telegram_id>> = target_raw)
              => /\ ledger' = ledger
                 /\ hotBroadcasts' = hotBroadcasts
                 /\ handler'.pc = "idle"
                 /\ ~handler'.called
                 /\ handler'.notified = {}]_vars

\* a sender with a wallet named a recipient that has none, and the handler
\* ended with nothing written
C23_Witness ==
    /\ handler.command = "/send_slh"
    /\ handler.pc = "idle"
    /\ handler.text = "no recipient"
    /\ HasRow(wallets, handler.telegram_id)
    /\ \E u \in Users : ~HasRow(wallets, u)
    /\ ledger = <<>>

\* C24: the three on-chain markers of every ledger entry agree: onchain is
\* true exactly when the chain tag is not INTERNAL and exactly when tx_hash
\* is set, and an entry marked on-chain carries the hash of a broadcast the
\* gateway made for its amount.
C24_MarkersAgree ==
    \A i \in 1..Len(ledger) :
        /\ ledger[i].onchain \in BOOLEAN
        /\ ledger[i].onchain <=> ledger[i].chain # "INTERNAL"
        /\ ledger[i].onchain <=> ledger[i].tx_hash # NoHash
        /\ ledger[i].onchain =>
              /\ ledger[i].tx_hash \in 1..Len(hotBroadcasts)
              /\ hotBroadcasts[ledger[i].tx_hash].amount_slh = ledger[i].amount

\* the ledger holds an entry marked on-chain next to an internal one
C24_Witness ==
    /\ \E i \in 1..Len(ledger) : ledger[i].onchain /\ ledger[i].tx_hash # NoHash
    /\ \E i \in 1..Len(ledger) : ~ledger[i].onchain /\ ledger[i].chain = "INTERNAL"

----------------------------------------------------------------------------
(* Claims about the shared Application of the webhook *)

\* C25: under any interleaving of concurrent webhook requests at most one
\* build of the Application completes and every request that gets past
\* get_application holds that one instance, which is the global and never
\* changes once set; a build that raises leaves the global unset and the lock
\* free, and a request that takes the lock while the global is unset builds.
C25_BuiltOnce ==
    /\ [](/\ Cardinality(tgApp.returned) <= 1
          /\ tgApp.returned \subseteq {tgApp._application}
          /\ tgApp._application # 0 => tgApp._application \in tgApp.started
          /\ \A r \in Threads :
                (tgApp.req[r].pc = "process" \/ tgApp.req[r].status \in {200, 400})
                    => /\ tgApp.req[r].app = tgApp._application
                       /\ tgApp._application # 0)
    /\ [][/\ tgApp._application # 0 => tgApp'._application = tgApp._application
          /\ \A r \in Threads :
                /\ (tgApp.req[r].status # 500 /\ tgApp'.req[r].status = 500)
                       => /\ tgApp'._application = 0
                          /\ tgApp'._application_lock = 0
                /\ (/\ tgApp.req[r].pc = "acquire"
                    /\ tgApp'.req[r].pc # "acquire"
                    /\ tgApp._application = 0)
                       => /\ tgApp'.req[r].pc = "initialize"
                          /\ tgApp'.objects = tgApp.objects + 1]_vars

\* after a build that raised, a second build completed while the other
\* request waited for the lock, and both requests hold the second instance
C25_Witness ==
    /\ tgApp.objects = 2
    /\ tgApp._application = 2
    /\ \A r \in Threads : tgApp.req[r].app = 2 /\ tgApp.req[r].status = 200

----------------------------------------------------------------------------
(* Claims about the BNB price cache *)

\* C26: a lookup made while the cached price is younger than five minutes
\* returns it without an outbound call; any other lookup fetches; the price
\* and its timestamp are stored together and only for a fetched price above
\* zero; a failed fetch returns the last cached price if there is one, else 0.
C26_PriceCache ==
    /\ [](/\ bnbPrice._BNB_PRICE_CACHE.none <=> bnbPrice._BNB_PRICE_CACHE_TS.none
          /\ ~bnbPrice._BNB_PRICE_CACHE.none => bnbPrice._BNB_PRICE_CACHE.v > 0)
    /\ [][/\ (bnbPrice.pc = "idle" /\ bnbPrice' # bnbPrice /\ bnbPrice'.now = bnbPrice.now)
               => IF /\ ~bnbPrice._BNB_PRICE_CACHE.none
                     /\ bnbPrice.now - bnbPrice._BNB_PRICE_CACHE_TS.v < 5
                  THEN /\ bnbPrice'.pc = "idle"
                       /\ ~bnbPrice'.outbound
                       /\ bnbPrice'.returned = bnbPrice._BNB_PRICE_CACHE
                       /\ bnbPrice'._BNB_PRICE_CACHE = bnbPrice._BNB_PRICE_CACHE
                       /\ bnbPrice'._BNB_PRICE_CACHE_TS = bnbPrice._BNB_PRICE_CACHE_TS
                  ELSE /\ bnbPrice'.pc = "fetch"
                       /\ bnbPrice'.outbound
          /\ (bnbPrice.pc = "fetch" /\ bnbPrice'.pc = "idle")
               => IF ~bnbPrice'.fetched.raised /\ bnbPrice'.fetched.price > 0
                  THEN /\ bnbPrice'._BNB_PRICE_CACHE = Value(bnbPrice'.fetched.price)
                       /\ bnbPrice'._BNB_PRICE_CACHE_TS = Value(bnbPrice.now)
                       /\ bnbPrice'.returned = Value(bnbPrice'.fetched.price)
                  ELSE /\ bnbPrice'._BNB_PRICE_CACHE = bnbPrice._BNB_PRICE_CACHE
                       /\ bnbPrice'._BNB_PRICE_CACHE_TS = bnbPrice._BNB_PRICE_CACHE_TS
                       /\ bnbPrice'.fetched.raised
                            => bnbPrice'.returned =
                                 IF bnbPrice._BNB_PRICE_CACHE.none THEN Value(0)
                                 ELSE bnbPrice._BNB_PRICE_CACHE]_vars

\* the cache went stale, the fetch then failed, and the lookup returned the
\* stale price that is still cached
C26_Witness ==
    /\ bnbPrice.pc = "idle"
    /\ bnbPrice.outbound
    /\ bnbPrice.fetched.raised
    /\ ~bnbPrice._BNB_PRICE_CACHE.none
    /\ bnbPrice.now - bnbPrice._BNB_PRICE_CACHE_TS.v >= 5
    /\ bnbPrice.returned = bnbPrice._BNB_PRICE_CACHE

----------------------------------------------------------------------------
(* Claims about the bot's user store *)

\* C27: UserStore loses no update.  Under any interleaving of set_wallet
\* calls of two tasks for different users, the file holds the wallet of every
\* call that finished writing; the write of set_wallet(u, a) sets u's entry to
\* a and leaves every other user's entry as it was in the file; and a
\* get_wallet(u) that follows returns a.
C27_NoLostUpdate ==
    /\ [](\A c \in Threads :
             LET q == storeCalls.call[c]
             IN  /\ q.written # None
                     => /\ q.user_id \in DOMAIN userStore
                        /\ userStore[q.user_id] = q.written
                 /\ (q.op = "get_wallet" /\ q.pc = "done" /\ q.written # None)
                     => q.returned = q.written)
    /\ [][\A c \in Threads :
             (/\ storeCalls.call[c].pc = "loaded"
              /\ storeCalls'.call[c].pc = "done"
              /\ storeCalls.call[c].op = "set_wallet"
              /\ ~storeCalls'.call[c].raised)
                 => /\ DOMAIN userStore' = DOMAIN userStore \cup {storeCalls.call[c].user_id}
                    /\ userStore'[storeCalls.call[c].user_id] = storeCalls.call[c].address
                    /\ \A u \in DOMAIN userStore \ {storeCalls.call[c].user_id} :
                          userStore'[u] = userStore[u]]_vars

\* both tasks wrote while the other's call was in flight, and a get_wallet
\* read back what its task had written
C27_Witness ==
    /\ DOMAIN userStore = Users
    /\ \A c \in Threads : storeCalls.call[c].written # None
    /\ storeCalls.call[1].written # storeCalls.call[2].written
    /\ storeCalls.call[1].op = "get_wallet"
    /\ storeCalls.call[1].pc = "done"
    /\ storeCalls.call[1].returned = storeCalls.call[1].written
    /\ storeCalls.call[2].pc = "acquire"

----------------------------------------------------------------------------
(* Claims about the menu-driven bot *)

\* C28: for any sequence of button presses and text messages, transfer_slh is
\* called only by a message handled in mode await_amount, with the to_addr
\* of that user's data, which is 0x and 40 hex characters and is only ever
\* set from a text this user sent in mode await_to; a text that is no
\* button and is invalid for the waiting mode leaves the mode unchanged.
C28_TransferOnlyAfterAddress ==
    /\ [](\A u \in Users :
             menu.user_data[u].mode = "await_amount"
                 => /\ Len(menu.user_data[u].to_addr) = 42
                    /\ SubSeq(menu.user_data[u].to_addr, 1, 2) = <<"0", "x">>
                    /\ \A i \in 3..42 : menu.user_data[u].to_addr[i] \in HexChars)
    /\ [][menu' # menu =>
            /\ menu'.last.called
                 => /\ menu.user_data[menu'.last.user_id].mode = "await_amount"
                    /\ menu'.transfer.user_id = menu'.last.user_id
                    /\ menu'.transfer.mode = "await_amount"
                    /\ menu'.transfer.to_addr = menu.user_data[menu'.last.user_id].to_addr
            /\ ~menu'.last.called => menu'.transfer = menu.transfer
            /\ \A v \in Users :
                  menu'.user_data[v].to_addr # menu.user_data[v].to_addr
                      => /\ v = menu'.last.user_id
                         /\ menu.user_data[v].mode = "await_to"
                         /\ menu'.user_data[v].to_addr = menu'.last.text
            /\ (\/ /\ menu.user_data[menu'.last.user_id].mode \in {"await_wallet", "await_to"}
                   /\ menu'.last.text \in {AddrShort, <<"0", ",", "1">>, <<"a", "b", "c">>}
                \/ /\ menu.user_data[menu'.last.user_id].mode = "await_amount"
                   /\ menu'.last.text \in {AddrA, AddrB, AddrShort, <<"a", "b", "c">>})
                 => menu'.user_data[menu'.last.user_id].mode
                        = menu.user_data[menu'.last.user_id].mode]_vars

\* a transfer was called for user "2" with the address that user entered
\* while user "1" waits for an amount with another address
C28_Witness ==
    /\ menu.last.called
    /\ menu.transfer.user_id = "2"
    /\ menu.transfer.to_addr = AddrB
    /\ menu.user_data["1"].mode = "await_amount"
    /\ menu.user_data["1"].to_addr = AddrA

\* C29 as stated: once an amount is accepted in mode await_amount and the
\* transfer is attempted, the user's mode is None whatever the call came to,
\* so that user's next message makes no second call.
C29_Original ==
    [][(menu' # menu /\ menu'.last.called)
          => menu'.user_data[menu'.last.user_id].mode = "None"]_vars

\* C30 as stated: after the bot acknowledged saving a valid address a for a
\* user, get_wallet of that user yields a; and the transfer button leads to
\* mode await_to only when the store holds a wallet for the user, and to
\* mode await_wallet otherwise.
C30_Original ==
    /\ []((menu.last.reply = "saved")
             => /\ menu.last.user_id \in DOMAIN userStore
                /\ userStore[menu.last.user_id] = menu.last.text)
    /\ [][(menu' # menu /\ menu'.last.text = ButtonTransfer)
             => menu'.user_data[menu'.last.user_id].mode =
                   IF menu'.last.user_id \in DOMAIN userStore
                   THEN "await_to" ELSE "await_wallet"]_vars

====
